---- MODULE Spec2Model ----
(***************************************************************************)
(* Election & nomination engine of GovGen: the per-seat VotingSystem       *)
(* objects (core/voting.py), the VotingManager that queues seats, drives   *)
(* the phases and commits winners (core/voting_manager.py), and the        *)
(* command loop that invokes them (core/main.py, core/prompt.py,           *)
(* core/commands.py, core/interfaces.py).                                  *)
(*                                                                         *)
(* core/government.py (the role ledger) is not part of the sources; its    *)
(* three operations used here (assign_role, remove_role,                   *)
(* is_player_assigned) are modelled from section 6 of the specification.   *)
(***************************************************************************)
EXTENDS Integers, Sequences, FiniteSets, TLC

\* ---------------------------------------------------------------- bounds
\* Number of players of world/player.py that take part (the list has four).
NumPlayers == 2
\* The clock is not advanced past this year.
MaxYear == 2
\* A command is not taken when it would leave a seat queue longer than this.
MaxQueue == 9
\* The remove_role command is not taken more often than this.
MaxRemovals == 1
\* An object whose methods are called directly gets at most this many nominees.
MaxCandidates == 3

\* ------------------------------------------------------- program constants
None == -1

AllPlayers == <<"Alice", "Bob", "Cleo", "Dmitri">>

\* The players that take part in a run of the program
PlayerList == SubSeq(AllPlayers, 1, NumPlayers)

\* Iteration order of title_requirements.items().
ROLES == <<"Elder", "Chieftain">>

RoleSet == {ROLES[i] : i \in 1..Len(ROLES)}

\* ------------------------------------------------------ office configuration
\* The office configuration table is an input of the engine.  Each scenario is
\* one table: reqs.get(...) defaults of initiate_votes are written out.
ElderTribal ==
    [selection_method |-> "voting", max_holders |-> 2,
     voting_system |-> "first_past_the_post", nomination_method |-> "appointed",
     appointer |-> "anyone", force_vote |-> TRUE,
     nomination_control |-> "time_based", nomination_duration |-> 1,
     nomination_starter_role |-> "None", nomination_closer_role |-> "None",
     innovations |-> {"Tribalism"}, leadership |-> TRUE]

ChieftainTribal ==
    [selection_method |-> "voting", max_holders |-> 1,
     voting_system |-> "first_past_the_post", nomination_method |-> "appointed",
     appointer |-> "Elder", force_vote |-> TRUE,
     nomination_control |-> "command_based", nomination_duration |-> 1,
     nomination_starter_role |-> "Elder", nomination_closer_role |-> "Elder",
     innovations |-> {"Chieftainship"}, leadership |-> TRUE]

ChieftainAppointed ==
    [ChieftainTribal EXCEPT !.selection_method = "appointment"]

\* The tribal table: a time-based and a command-based plurality office
TribalTable == [Elder |-> ElderTribal, Chieftain |-> ChieftainTribal]

\* The tribal table with one Elder seat
OneElderTable ==
    [Elder |-> [ElderTribal EXCEPT !.max_holders = 1], Chieftain |-> ChieftainTribal]

\* Two Elder seats, no vote forcing
UnforcedTable ==
    [Elder |-> [ElderTribal EXCEPT !.force_vote = FALSE], Chieftain |-> ChieftainAppointed]

\* Two Elder seats, vote forcing, nominations last zero years
InstantTable ==
    [Elder |-> [ElderTribal EXCEPT !.nomination_duration = 0,
                                    !.nomination_method = "self_appointed"],
     Chieftain |-> ChieftainAppointed]

\* A two-round-runoff office
RunoffTable ==
    [Elder |-> [ElderTribal EXCEPT !.voting_system = "two_round_runoff",
                                    !.max_holders = 1, !.nomination_method = "open"],
     Chieftain |-> ChieftainAppointed]

\* A ranked-choice office
RankedTable ==
    [Elder |-> [ElderTribal EXCEPT !.voting_system = "ranked_choice",
                                    !.max_holders = 1, !.force_vote = FALSE],
     Chieftain |-> ChieftainAppointed]

Scenarios == {OneElderTable, UnforcedTable, InstantTable, RunoffTable, RankedTable}

VARIABLES
    election,              \* a VotingSystem object whose methods are called directly (<<>>: none)
    called,                \* history: the last direct call on it and how it ended
    players,               \* Simulation.players (= Government.players)
    removals,              \* history: how often the remove_role command was used
    log,                   \* history: what the manager did during the last command
    owed,                  \* history: per role, seats requeued and not yet given a new vote
    title_requirements,    \* government_type.title_requirements
    active_votes,          \* VotingManager.active_votes
    vote_interfaces,       \* VotingManager.vote_interfaces: role -> index of its vote in active_votes, 0 = no entry
    queued_seats,          \* VotingManager.queued_seats
    assignments,           \* Government.assignments: role -> set of holders
    discovered,            \* innovation_pool.discovered
    current_year,          \* Simulation.current_year
    current_player_index,  \* Simulation.current_player_index (0-based)
    error                  \* "none", or the exception that ended run()

vars == <<election, called, players, removals, log, owed, title_requirements, active_votes, vote_interfaces, queued_seats,
          assignments, discovered, current_year, current_player_index, error>>

\* ------------------------------------------------------------ sequences
Range(s) == {s[i] : i \in DOMAIN s}

\* [p.name for p in self.government.players]
PlayerNames == Range(players)

RemoveAt(s, i) == SubSeq(s, 1, i - 1) \o SubSeq(s, i + 1, Len(s))

\* range(a, b + 1)
RangeSeq(a, b) == [i \in 1..(IF b >= a THEN b - a + 1 ELSE 0) |-> a + i - 1]

\* random.choice(s) with the draw given as a number
Choice(s, pick) == s[((pick - 1) % Len(s)) + 1]

\* --------------------------------------------------------- VotingSystem
\* VotingSystem.__init__ (and the subclasses' __init__), then set_nomination_method
NewVote(role, reqs, seat) ==
    [role |-> role, seat_number |-> seat, system |-> reqs.voting_system,
     force_vote |-> reqs.force_vote,
     nomination_control |-> reqs.nomination_control,
     nomination_duration |-> reqs.nomination_duration,
     nomination_starter_role |-> reqs.nomination_starter_role,
     nomination_closer_role |-> reqs.nomination_closer_role,
     nomination_method |-> reqs.nomination_method,
     nominations |-> <<>>, votes |-> <<>>, voting_active |-> FALSE,
     candidates |-> <<>>, is_nomination_open |-> FALSE,
     nomination_start_year |-> None, voting_start_year |-> None,
     finalists |-> <<>>, first_round |-> TRUE,
     \* history, not a field of the class: <<the nominations when first closed>>
     closed_with |-> <<>>]

\* The checks of start_nominations: "ok" or the ValueError raised.
start_nominations_check(v) ==
    IF v.is_nomination_open THEN "already open"
    ELSE IF v.nomination_control = "command_based" /\ v.nomination_starter_role = "None"
         THEN "no starter role"
    ELSE "ok"

\* A variant of start_nominations that assigns before it checks
start_nominations_unchecked(v, year) ==
    [v EXCEPT !.is_nomination_open = TRUE, !.nomination_start_year = year,
              !.nominations = <<>>]

start_nominations(v, year) ==
    IF start_nominations_check(v) # "ok" THEN v
    ELSE [v EXCEPT !.is_nomination_open = TRUE,
                   !.nomination_start_year = year,
                   !.nominations = <<>>]

close_nominations(v) ==
    IF ~v.is_nomination_open THEN v
    ELSE [v EXCEPT !.is_nomination_open = FALSE, !.nomination_start_year = None,
                   !.closed_with = IF @ = <<>> THEN <<v.nominations>> ELSE @]

\* A variant of is_nomination_period_over that waits one year longer
period_over_late(v, year) ==
    IF v.nomination_control # "time_based" \/ ~v.is_nomination_open THEN FALSE
    ELSE IF v.nomination_start_year = None THEN FALSE
    ELSE (year - v.nomination_start_year) > v.nomination_duration

is_nomination_period_over(v, year) ==
    IF v.nomination_control # "time_based" \/ ~v.is_nomination_open THEN FALSE
    ELSE IF v.nomination_start_year = None THEN FALSE
    ELSE (year - v.nomination_start_year) >= v.nomination_duration


\* ------------------------------------------------- Government (role ledger)
\* Government.is_player_assigned(name, role)
is_player_assigned(asg, name, role) == name \in asg[role]

\* assignments.get(role, [])
Holders(asg, role) == IF role \in RoleSet THEN asg[role] ELSE {}

\* Government.assign_role(role, player): the ledger accepts only a player who
\* does not hold the office yet, while a seat is free, and whom it has no
\* conflict with; `conflicted` is the ledger's own view of the players that
\* hold a conflicting seat.
assign_role_ok(asg, reqs, role, player, conflicted) ==
    /\ player \notin asg[role]
    /\ Cardinality(asg[role]) < reqs[role].max_holders
    /\ player \notin conflicted

assign_role(asg, reqs, role, player, conflicted) ==
    IF assign_role_ok(asg, reqs, role, player, conflicted)
    THEN [asg EXCEPT ![role] = @ \cup {player}]
    ELSE asg

\* Government.remove_role(role, player)
remove_role(asg, role, player) == [asg EXCEPT ![role] = @ \ {player}]

\* ------------------------------------------------ VotingSystem: nominations
\* A variant of can_start_nominations that lets every player start
can_start_nominations_any(v, asg, player) ==
    v.nomination_control = "command_based" /\ v.nomination_starter_role # "None"

can_start_nominations(v, asg, player) ==
    IF v.nomination_control # "command_based" \/ v.nomination_starter_role = "None"
    THEN FALSE
    ELSE player \in Holders(asg, v.nomination_starter_role)

can_close_nominations(v, asg, player) ==
    IF v.nomination_control # "command_based" \/ v.nomination_closer_role = "None"
    THEN FALSE
    ELSE player \in Holders(asg, v.nomination_closer_role)

\* A variant of can_appoint that lets every player appoint
can_appoint_anyone(v, asg, reqs, player, role) == v.nomination_method = "appointed"

can_appoint(v, asg, reqs, player, role) ==
    IF v.nomination_method # "appointed" THEN FALSE
    ELSE IF reqs[role].appointer = "anyone" THEN TRUE
    ELSE IF reqs[role].appointer = "None" THEN FALSE
    ELSE player \in Holders(asg, reqs[role].appointer)

\* The checks of nominate, in the order of the code: "ok" or the ValueError.
nominate_check(v, asg, reqs, player, candidate_name) ==
    IF ~v.is_nomination_open THEN "not open"
    ELSE IF v.voting_active THEN "voting active"
    ELSE IF v.nomination_method = "self_appointed" /\ player # candidate_name
         THEN "only self-nomination"
    ELSE IF v.nomination_method = "appointed" /\ ~can_appoint(v, asg, reqs, player, v.role)
         THEN "not authorized"
    ELSE IF candidate_name \in Range(v.nominations) THEN "already nominated"
    ELSE IF candidate_name \notin PlayerNames THEN "not a valid player"
    ELSE IF is_player_assigned(asg, candidate_name, v.role) THEN "already assigned"
    ELSE "ok"

\* A variant of nominate that appends the name without any check
nominate_unchecked(v, asg, reqs, player, candidate_name) ==
    [v EXCEPT !.nominations = Append(@, candidate_name)]

nominate(v, asg, reqs, player, candidate_name) ==
    IF nominate_check(v, asg, reqs, player, candidate_name) # "ok" THEN v
    ELSE [v EXCEPT !.nominations = Append(@, candidate_name)]

\* ----------------------------------------------------- VotingSystem: voting
can_end_turn(v, player) == ~v.force_vote \/ player \in DOMAIN v.votes

\* A variant of start_vote that keeps the first candidate only
start_vote_first_only(v, candidates, year) ==
    [v EXCEPT !.voting_active = TRUE, !.candidates = SubSeq(candidates, 1, 1),
              !.voting_start_year = year]

start_vote(v, candidates, year) ==
    [v EXCEPT !.voting_active = TRUE, !.candidates = candidates,
              !.voting_start_year = year]

\* self.finalists or self.candidates
Round(v) == IF v.finalists # <<>> THEN v.finalists ELSE v.candidates

\* A variant of SameMultiset that compares the lengths only
SameLength(a, b) == Len(a) = Len(b)

\* sorted(preferences) == sorted(self.candidates): the same multiset
SameMultiset(a, b) ==
    /\ Len(a) = Len(b)
    /\ \A x \in Range(a) \cup Range(b) :
         Cardinality({i \in DOMAIN a : a[i] = x}) = Cardinality({i \in DOMAIN b : b[i] = x})

\* The checks of vote of the three subclasses: "ok" or the ValueError.  A
\* plurality or runoff ballot is a name; a ranked ballot is the list of names
\* (stored joined with "," and split again by get_result: names hold no comma).
vote_check(v, player, vote_data) ==
    IF ~v.voting_active THEN "not active"
    ELSE IF v.system = "first_past_the_post" THEN
        IF vote_data \notin Range(v.candidates) THEN "not a valid candidate"
        ELSE IF player \in DOMAIN v.votes THEN "already voted"
        ELSE "ok"
    ELSE IF v.system = "ranked_choice" THEN
        IF Len(vote_data) # Len(v.candidates) THEN "invalid number of preferences"
        ELSE IF ~SameMultiset(vote_data, v.candidates) THEN "must include all candidates"
        ELSE IF player \in DOMAIN v.votes THEN "already voted"
        ELSE "ok"
    ELSE
        IF vote_data \notin Range(Round(v)) THEN "not a valid candidate"
        ELSE IF player \in DOMAIN v.votes THEN "already voted"
        ELSE "ok"

\* A variant of vote that replaces the ballot of a player who votes again
vote_again(v, player, vote_data) ==
    IF vote_check(v, player, vote_data) \notin {"ok", "already voted"} THEN v
    ELSE [v EXCEPT !.votes = [q \in DOMAIN @ \cup {player} |->
                                IF q = player THEN vote_data ELSE @[q]]]

\* A variant of vote that only refuses a second ballot
vote_any_name(v, player, vote_data) ==
    IF player \in DOMAIN v.votes THEN v
    ELSE [v EXCEPT !.votes = (player :> vote_data) @@ @]

vote(v, player, vote_data) ==
    IF vote_check(v, player, vote_data) # "ok" THEN v
    ELSE [v EXCEPT !.votes = (player :> vote_data) @@ @]

\* A variant of is_complete that waits one year longer
is_complete_late(v, year) ==
    IF v.system # "first_past_the_post" THEN "TypeError"
    ELSE IF v.voting_start_year # None /\ year > v.voting_start_year + 1 THEN "true"
    ELSE "false"

\* vote.is_complete(self.sim) as process_votes calls it: only FirstPastThePost
\* takes the argument; the other two define is_complete(self) and the call
\* raises TypeError.
is_complete(v, year) ==
    IF v.system # "first_past_the_post" THEN "TypeError"
    ELSE IF v.voting_start_year # None /\ year > v.voting_start_year THEN "true"
    ELSE "false"

\* ---------------------------------------------------------------- tallies
\* sum(1 for v in self.votes.values() if v == candidate)
VoteCount(votes, c) == Cardinality({p \in DOMAIN votes : votes[p] = c})

\* A variant of MaxOf that gives the least element
LeastOf(S) == CHOOSE x \in S : \A y \in S : x <= y

MaxOf(S) == CHOOSE x \in S : \A y \in S : y <= x

MinOf(S) == CHOOSE x \in S : \A y \in S : x <= y

\* A variant of HasMajority that asks for more votes than there are ballots
MoreThanAll(max_votes, total) == max_votes > total

\* max_votes > sum(vote_counts.values()) / 2
HasMajority(max_votes, total) == 2 * max_votes > total

\* [c for c in cands if count(c) == n], in the order of cands
RECURSIVE WithCount(_, _, _)
WithCount(cands, votes, n) ==
    IF cands = <<>> THEN <<>>
    ELSE (IF VoteCount(votes, Head(cands)) = n THEN <<Head(cands)>> ELSE <<>>)
         \o WithCount(Tail(cands), votes, n)

\* A variant of fptp_get_result that draws among all candidates
AnyCandidate(v, pick) == Choice(v.candidates, pick)

\* FirstPastThePost.get_result; pick is the draw of random.choice
fptp_get_result(v, pick) ==
    IF DOMAIN v.votes = {} THEN Choice(v.candidates, pick)
    ELSE LET max_votes == MaxOf({VoteCount(v.votes, c) : c \in Range(v.candidates)})
             winners == WithCount(v.candidates, v.votes, max_votes)
         IN  Choice(winners, pick)

\* A variant of SortedByVotes that keeps the order of nomination
NominationOrder(cands, votes) == cands

\* sorted(vote_counts, key=vote_counts.get, reverse=True): stable, descending
RECURSIVE SortedByVotes(_, _)
SortedByVotes(cands, votes) ==
    IF cands = <<>> THEN <<>>
    ELSE LET max_votes == MaxOf({VoteCount(votes, c) : c \in Range(cands)})
             i == CHOOSE j \in DOMAIN cands :
                     /\ VoteCount(votes, cands[j]) = max_votes
                     /\ \A k \in 1..(j - 1) : VoteCount(votes, cands[k]) # max_votes
         IN  <<cands[i]>> \o SortedByVotes(RemoveAt(cands, i), votes)

\* TwoRoundRunoffVoting.get_result: the result and the object afterwards
trr_get_result(v, pick) ==
    IF DOMAIN v.votes = {} THEN [result |-> Choice(Round(v), pick), vote |-> v]
    ELSE LET round == Round(v)
             max_votes == MaxOf({VoteCount(v.votes, c) : c \in Range(round)})
             total == Cardinality({p \in DOMAIN v.votes : v.votes[p] \in Range(round)})
             winners == WithCount(round, v.votes, max_votes)
         IN  IF HasMajority(max_votes, total) THEN [result |-> winners[1], vote |-> v]
             ELSE IF v.finalists = <<>> THEN
                 [result |-> "RUNOFF",
                  vote |-> [v EXCEPT !.finalists = SubSeq(SortedByVotes(round, v.votes), 1, 2),
                                     !.first_round = FALSE,
                                     !.votes = <<>>]]
             ELSE [result |-> Choice(winners, pick), vote |-> v]


\* The candidate a ranked ballot counts for: its first one not eliminated
\* ("" when every candidate of the ballot is eliminated).
RECURSIVE FirstChoice(_, _)
FirstChoice(prefs, eliminated) ==
    IF prefs = <<>> THEN ""
    ELSE IF Head(prefs) \notin eliminated THEN Head(prefs)
    ELSE FirstChoice(Tail(prefs), eliminated)

\* vote_counts of one round of RankedChoiceVoting.get_result
RankedCount(votes, eliminated, c) ==
    Cardinality({p \in DOMAIN votes : FirstChoice(votes[p], eliminated) = c})

\* [c for c, n in vote_counts.items() if n == min_votes]: only candidates that
\* were counted in this round are keys of vote_counts
RECURSIVE RankedWithCount(_, _, _, _)
RankedWithCount(cands, votes, eliminated, n) ==
    IF cands = <<>> THEN <<>>
    ELSE (IF RankedCount(votes, eliminated, Head(cands)) = n THEN <<Head(cands)>> ELSE <<>>)
         \o RankedWithCount(Tail(cands), votes, eliminated, n)

\* The while-loop of RankedChoiceVoting.get_result from round r on; `out` are
\* the candidates eliminated so far, in the order they were eliminated, and
\* draws are the draws of random.choice, one per round.  The result comes with
\* the number of eliminations made and the candidates eliminated, in order.
RECURSIVE rcv_rounds(_, _, _, _)
rcv_rounds(v, out, draws, r) ==
    LET eliminated == Range(out)
        counted == {c \in Range(v.candidates) : RankedCount(v.votes, eliminated, c) > 0}
        pick == Choice(draws, r)
    IN  IF counted = {}
        THEN [result |-> Choice(v.candidates, pick), rounds |-> r - 1, eliminated |-> out]
        ELSE LET counts == {RankedCount(v.votes, eliminated, c) : c \in counted}
                 max_votes == MaxOf(counts)
                 min_votes == MinOf(counts)
                 total == Cardinality({p \in DOMAIN v.votes :
                                         FirstChoice(v.votes[p], eliminated) \in counted})
             IN  IF HasMajority(max_votes, total)
                 THEN [result |-> RankedWithCount(v.candidates, v.votes, eliminated, max_votes)[1],
                       rounds |-> r - 1, eliminated |-> out]
                 ELSE rcv_rounds(v,
                        Append(out, Choice(RankedWithCount(v.candidates, v.votes,
                                                           eliminated, min_votes), pick)),
                        draws, r + 1)

rcv_get_result(v, draws) == rcv_rounds(v, <<>>, draws, 1).result

\* vote.get_result() of whichever subclass: the result and the object afterwards
get_result(v, draws) ==
    IF v.system = "first_past_the_post"
    THEN [result |-> fptp_get_result(v, draws[1]), vote |-> v]
    ELSE IF v.system = "ranked_choice"
    THEN [result |-> rcv_get_result(v, draws), vote |-> v]
    ELSE trr_get_result(v, draws[1])

\* --------------------------------------------------------- VotingManager
\* The manager's and the ledger's state, as one value m:
\*   m.av active_votes, m.vi vote_interfaces, m.qs queued_seats, m.asg assignments
\* and two history values that the code does not keep:
\*   m.log   what the manager did during the current command, in order
\*   m.owed  per role, the seats requeued since they last got a vote, latest first,
\*           each with whether it was requeued because the ledger rejected a winner

\* One entry of m.log: what happened, for which seat, the role's queue at that
\* moment, the player concerned, and the role's owed seats at that moment.
Event(e, role, seat, queue, who, owing, retired) ==
    [e |-> e, role |-> role, seat |-> seat, queue |-> queue, who |-> who,
     owed |-> owing, retired |-> retired]

\* A variant of initiate_role that does not look at the discovered innovations
initiate_role_any_label(m, reqs, disc, year, role) ==
    LET r == reqs[role]
        current_holders == Cardinality(m.asg[role])
        active_votes_for_role == Cardinality({i \in DOMAIN m.av : m.av[i].role = role})
        vacant_seats == r.max_holders - current_holders - active_votes_for_role
    IN  IF r.selection_method = "voting" /\ vacant_seats > 0
        THEN LET queued == m.qs[role]
                           \o RangeSeq(current_holders + active_votes_for_role + 1, r.max_holders)
             IN  IF queued # <<>>
                    /\ ~\E i \in DOMAIN m.av : m.av[i].role = role /\ m.av[i].is_nomination_open
                 THEN LET created == NewVote(role, r, Head(queued))
                          started == IF r.nomination_control = "time_based"
                                     THEN start_nominations(created, year)
                                     ELSE created
                      IN  [m EXCEPT !.qs[role] = Tail(queued), !.av = Append(@, started),
                                    !.owed[role] = IF @ = <<>> THEN @ ELSE Tail(@),
                                    !.log = Append(@, Event("create", role, Head(queued),
                                                            queued, "", m.owed[role], FALSE))]
                 ELSE [m EXCEPT !.qs[role] = queued]
        ELSE m

\* A variant of initiate_role that takes the lowest seat number of the queue
initiate_role_lowest(m, reqs, disc, year, role) ==
    LET r == reqs[role]
        current_holders == Cardinality(m.asg[role])
        active_votes_for_role == Cardinality({i \in DOMAIN m.av : m.av[i].role = role})
        vacant_seats == r.max_holders - current_holders - active_votes_for_role
    IN  IF r.selection_method = "voting" /\ vacant_seats > 0 /\ r.innovations \subseteq disc
        THEN LET queued == m.qs[role]
                           \o RangeSeq(current_holders + active_votes_for_role + 1, r.max_holders)
             IN  IF queued # <<>>
                    /\ ~\E i \in DOMAIN m.av : m.av[i].role = role /\ m.av[i].is_nomination_open
                 THEN LET lowest == MinOf(Range(queued))
                          at == CHOOSE n \in DOMAIN queued : queued[n] = lowest
                          created == NewVote(role, r, lowest)
                          started == IF r.nomination_control = "time_based"
                                     THEN start_nominations(created, year)
                                     ELSE created
                      IN  [m EXCEPT !.qs[role] = RemoveAt(queued, at), !.av = Append(@, started),
                                    !.owed[role] = IF @ = <<>> THEN @ ELSE Tail(@),
                                    !.log = Append(@, Event("create", role, lowest,
                                                            queued, "", m.owed[role], FALSE))]
                 ELSE [m EXCEPT !.qs[role] = queued]
        ELSE m

\* A variant of initiate_role that does not count the live votes of the office
initiate_role_ignoring_votes(m, reqs, disc, year, role) ==
    LET r == reqs[role]
        current_holders == Cardinality(m.asg[role])
        active_votes_for_role == Cardinality({i \in DOMAIN m.av : m.av[i].role = role})
        vacant_seats == r.max_holders - current_holders
    IN  IF r.selection_method = "voting" /\ vacant_seats > 0 /\ r.innovations \subseteq disc
        THEN LET queued == m.qs[role]
                           \o RangeSeq(current_holders + active_votes_for_role + 1, r.max_holders)
             IN  IF queued # <<>>
                    /\ ~\E i \in DOMAIN m.av : m.av[i].role = role /\ m.av[i].is_nomination_open
                 THEN LET created == NewVote(role, r, Head(queued))
                          started == IF r.nomination_control = "time_based"
                                     THEN start_nominations(created, year)
                                     ELSE created
                      IN  [m EXCEPT !.qs[role] = Tail(queued), !.av = Append(@, started),
                                    !.owed[role] = IF @ = <<>> THEN @ ELSE Tail(@),
                                    !.log = Append(@, Event("create", role, Head(queued),
                                                            queued, "", m.owed[role], FALSE))]
                 ELSE [m EXCEPT !.qs[role] = queued]
        ELSE m

\* The body of the for-loop of initiate_votes for one role
initiate_role(m, reqs, disc, year, role) ==
    LET r == reqs[role]
        current_holders == Cardinality(m.asg[role])
        active_votes_for_role == Cardinality({i \in DOMAIN m.av : m.av[i].role = role})
        vacant_seats == r.max_holders - current_holders - active_votes_for_role
    IN  IF r.selection_method = "voting" /\ vacant_seats > 0 /\ r.innovations \subseteq disc
        THEN LET queued == m.qs[role]
                           \o RangeSeq(current_holders + active_votes_for_role + 1, r.max_holders)
             IN  IF queued # <<>>
                    /\ ~\E i \in DOMAIN m.av : m.av[i].role = role /\ m.av[i].is_nomination_open
                 THEN LET created == NewVote(role, r, Head(queued))
                          started == IF r.nomination_control = "time_based"
                                     THEN start_nominations(created, year)
                                     ELSE created
                      IN  [m EXCEPT !.qs[role] = Tail(queued), !.av = Append(@, started),
                                    !.owed[role] = IF @ = <<>> THEN @ ELSE Tail(@),
                                    !.log = Append(@, Event("create", role, Head(queued),
                                                            queued, "", m.owed[role], FALSE))]
                 ELSE [m EXCEPT !.qs[role] = queued]
        ELSE m

RECURSIVE initiate_from(_, _, _, _, _)
initiate_from(m, reqs, disc, year, k) ==
    IF k > Len(ROLES) THEN m
    ELSE initiate_from(initiate_role(m, reqs, disc, year, ROLES[k]), reqs, disc, year, k + 1)

\* VotingManager.initiate_votes
initiate_votes(m, reqs, disc, year) == initiate_from(m, reqs, disc, year, 1)

\* self.active_votes.remove(vote); if vote.role in self.vote_interfaces: del ...
remove_vote(m, i) ==
    LET role == m.av[i].role
    IN  [m EXCEPT !.av = RemoveAt(@, i),
                  !.vi = [r \in RoleSet |->
                            IF r = role THEN 0
                            ELSE IF m.vi[r] > i THEN m.vi[r] - 1 ELSE m.vi[r]]]

\* A variant of commit that requeues a rejected seat at the back of the queue
commit_at_back(m, i, reqs, disc, year, winner, conflicted) ==
    LET v == m.av[i]
        ok == assign_role_ok(m.asg, reqs, v.role, winner, conflicted)
        m1 == [m EXCEPT !.asg = assign_role(m.asg, reqs, v.role, winner, conflicted),
                        !.qs[v.role] = IF ok THEN @ ELSE @ \o <<v.seat_number>>,
                        !.owed[v.role] =
                            IF ok THEN @
                            ELSE <<[seat |-> v.seat_number, rejected |-> TRUE]>> \o @]
        m2 == remove_vote(m1, i)
        m3 == [m2 EXCEPT !.log = Append(@, Event(IF ok THEN "assigned" ELSE "rejected",
                                                 v.role, v.seat_number, m2.qs[v.role], winner,
                                                 m.owed[v.role], Len(m2.av) = Len(m.av) - 1))]
    IN  IF m3.qs[v.role] # <<>> THEN initiate_votes(m3, reqs, disc, year) ELSE m3

\* A variant of commit that does not scan again after retiring the vote
commit_without_scan(m, i, reqs, disc, year, winner, conflicted) ==
    LET v == m.av[i]
        ok == assign_role_ok(m.asg, reqs, v.role, winner, conflicted)
        m1 == [m EXCEPT !.asg = assign_role(m.asg, reqs, v.role, winner, conflicted),
                        !.qs[v.role] = IF ok THEN @ ELSE <<v.seat_number>> \o @,
                        !.owed[v.role] =
                            IF ok THEN @
                            ELSE <<[seat |-> v.seat_number, rejected |-> TRUE]>> \o @]
        m2 == remove_vote(m1, i)
        m3 == [m2 EXCEPT !.log = Append(@, Event(IF ok THEN "assigned" ELSE "rejected",
                                                 v.role, v.seat_number, m2.qs[v.role], winner,
                                                 m.owed[v.role], Len(m2.av) = Len(m.av) - 1))]
    IN  m3

\* The commit of process_votes (lines 96-110 and 133-145): assign the winner,
\* requeue the seat at the front when the ledger refuses, retire the vote and
\* scan again when the office's queue is not empty.
commit(m, i, reqs, disc, year, winner, conflicted) ==
    LET v == m.av[i]
        ok == assign_role_ok(m.asg, reqs, v.role, winner, conflicted)
        m1 == [m EXCEPT !.asg = assign_role(m.asg, reqs, v.role, winner, conflicted),
                        !.qs[v.role] = IF ok THEN @ ELSE <<v.seat_number>> \o @,
                        !.owed[v.role] =
                            IF ok THEN @
                            ELSE <<[seat |-> v.seat_number, rejected |-> TRUE]>> \o @]
        m2 == remove_vote(m1, i)
        m3 == [m2 EXCEPT !.log = Append(@, Event(IF ok THEN "assigned" ELSE "rejected",
                                                 v.role, v.seat_number, m2.qs[v.role], winner,
                                                 m.owed[v.role], Len(m2.av) = Len(m.av) - 1))]
    IN  IF m3.qs[v.role] # <<>> THEN initiate_votes(m3, reqs, disc, year) ELSE m3

\* A variant of discard that does not requeue the seat
discard_dropping_seat(m, i, reqs, disc, year) ==
    LET v == m.av[i]
        m1 == remove_vote(m, i)
        m2 == [m1 EXCEPT !.qs[v.role] = @,
                         !.owed[v.role] =
                             <<[seat |-> v.seat_number, rejected |-> FALSE]>> \o @]
        m3 == [m2 EXCEPT !.log = Append(@, Event("discarded", v.role, v.seat_number,
                                                 m2.qs[v.role], "", m.owed[v.role],
                                                 Len(m2.av) = Len(m.av) - 1))]
    IN  initiate_votes(m3, reqs, disc, year)

\* The branch of process_votes for no candidate (lines 116-122)
discard(m, i, reqs, disc, year) ==
    LET v == m.av[i]
        m1 == remove_vote(m, i)
        m2 == [m1 EXCEPT !.qs[v.role] = <<v.seat_number>> \o @,
                         !.owed[v.role] =
                             <<[seat |-> v.seat_number, rejected |-> FALSE]>> \o @]
        m3 == [m2 EXCEPT !.log = Append(@, Event("discarded", v.role, v.seat_number,
                                                 m2.qs[v.role], "", m.owed[v.role],
                                                 Len(m2.av) = Len(m.av) - 1))]
    IN  initiate_votes(m3, reqs, disc, year)

\* One iteration of the for-loop of process_votes, for the vote that is now at
\* index i of active_votes: the state afterwards, whether the vote was removed
\* from active_votes, and the exception that ended the loop ("none" if none).
process_vote(m, i, reqs, disc, year, conflicted, pick) ==
    LET v0 == m.av[i]
        v1 == IF /\ v0.is_nomination_open
                 /\ v0.nomination_control = "time_based"
                 /\ is_nomination_period_over(v0, year)
              THEN close_nominations(v0) ELSE v0
        m1 == [m EXCEPT !.av[i] = v1]
        candidates == v1.nominations
        closed == ~v1.is_nomination_open /\ ~v1.voting_active
    IN  IF closed /\ Len(candidates) = 1
        THEN [m |-> commit(m1, i, reqs, disc, year, candidates[1], conflicted),
              removed |-> TRUE, err |-> "none"]
        ELSE IF closed /\ Len(candidates) = 0
        THEN [m |-> discard(m1, i, reqs, disc, year), removed |-> TRUE, err |-> "none"]
        ELSE LET m2 == IF closed
                       THEN [m1 EXCEPT !.av[i] = start_vote(v1, candidates, year),
                                       !.vi[v1.role] = i]
                       ELSE m1
                 v2 == m2.av[i]
                 complete == IF v2.voting_active THEN is_complete(v2, year) ELSE "false"
                 res == get_result(v2, <<pick>>)
             IN  IF complete = "TypeError"
                 THEN [m |-> m2, removed |-> FALSE, err |-> "TypeError"]
                 ELSE IF complete = "false"
                 THEN [m |-> m2, removed |-> FALSE, err |-> "none"]
                 ELSE IF v2.system = "two_round_runoff" /\ res.result = "RUNOFF"
                 THEN [m |-> [m2 EXCEPT !.av[i] = start_vote(res.vote, res.vote.finalists, year)],
                       removed |-> FALSE, err |-> "none"]
                 ELSE [m |-> commit(m2, i, reqs, disc, year, res.result, conflicted),
                       removed |-> TRUE, err |-> "none"]

\* The for-loop of process_votes over the copy active_votes[:] taken at its
\* start (n votes), from the k-th of them on; `removed` of the votes before it
\* are gone from active_votes, which is where the k-th vote is now.
RECURSIVE process_from(_, _, _, _, _, _, _, _, _)
process_from(m, k, n, removed, reqs, disc, year, conflicted, picks) ==
    IF k > n THEN [m |-> m, err |-> "none"]
    ELSE LET step == process_vote(m, k - removed, reqs, disc, year, conflicted, picks[k])
         IN  IF step.err # "none" THEN [m |-> step.m, err |-> step.err]
             ELSE process_from(step.m, k + 1, n, removed + (IF step.removed THEN 1 ELSE 0),
                               reqs, disc, year, conflicted, picks)

\* A variant of process_votes that goes over the list once more afterwards,
\* as a loop over the list itself instead of its copy would
process_votes_again(m, reqs, disc, year, conflicted, picks) ==
    LET once == process_from(m, 1, Len(m.av), 0, reqs, disc, year, conflicted, picks)
    IN  IF once.err # "none" THEN once
        ELSE process_from(once.m, 1, Len(once.m.av), 0, reqs, disc, year, conflicted,
                          [k \in 1..Len(once.m.av) |-> 1])

\* VotingManager.process_votes
process_votes(m, reqs, disc, year, conflicted, picks) ==
    process_from(m, 1, Len(m.av), 0, reqs, disc, year, conflicted, picks)


\* ------------------------------------------------------------ the program
Manager ==
    [av |-> active_votes, vi |-> vote_interfaces, qs |-> queued_seats, asg |-> assignments,
     log |-> <<>>, owed |-> owed]

Becomes(m) ==
    /\ active_votes' = m.av
    /\ vote_interfaces' = m.vi
    /\ queued_seats' = m.qs
    /\ assignments' = m.asg
    /\ log' = m.log
    /\ owed' = m.owed

QueuesBounded(m) == \A r \in RoleSet : Len(m.qs[r]) <= MaxQueue

\* self.sim.players[self.sim.current_player_index].name
CurrentPlayer == players[current_player_index + 1]

\* PromptManager.get_prompt: every command is chosen from a prompt, and
\* building the prompt scans for vacant seats first.
Prompted == initiate_votes(Manager, title_requirements, discovered, current_year)

\* GovernmentType.get_accessible_interfaces: the player holds a titled role
\* that maps to the leadership interface
HasLeadershipInterface(asg, player) ==
    \E r \in RoleSet : player \in asg[r] /\ title_requirements[r].leadership

\* The filter of do_nominate (and of the menu) for one vote
NominationEligible(v, asg, player) ==
    /\ v.is_nomination_open
    /\ \/ v.nomination_method = "open"
       \/ v.nomination_method = "self_appointed" /\ player \notin Range(v.nominations)
       \/ v.nomination_method = "appointed"
            /\ can_appoint(v, asg, title_requirements, player, v.role)

\* The candidates do_nominate offers
NominationChoices(v, asg, player) ==
    IF v.nomination_method = "self_appointed" THEN {player}
    ELSE {c \in PlayerNames : ~is_player_assigned(asg, c, v.role)}

\* What a player can type as a vote
BallotData(v) ==
    IF v.system = "ranked_choice"
    THEN UNION {[1..n -> PlayerNames] : n \in 1..NumPlayers}
    ELSE PlayerNames \cup {"Nobody"}

\* Draws of random.choice for one call of process_votes, one per vote
Picks(m) ==
    {f \in [1..Len(m.av) -> 1..NumPlayers] :
        \A i \in 1..Len(m.av) : ~m.av[i].voting_active => f[i] = 1}

\* No method was called directly
NotCalled ==
    [op |-> "none", verdict |-> "ok", named |-> "", tallied |-> <<>>, eliminated |-> <<>>]

InitWith(tables) ==
    /\ title_requirements \in tables
    /\ election = <<>>
    /\ called = NotCalled
    /\ players = PlayerList
    /\ removals = 0
    /\ log = <<>>
    /\ owed = [r \in RoleSet |-> <<>>]
    /\ active_votes = <<>>
    /\ vote_interfaces = [r \in RoleSet |-> 0]
    /\ queued_seats = [r \in RoleSet |-> <<>>]
    /\ assignments = [r \in RoleSet |-> {}]
    /\ discovered = {"Tribalism"}
    /\ current_year = 0
    /\ current_player_index = 0
    /\ error = "none"

\* Simulation.__init__ with one of the small tables
Init == InitWith(Scenarios)

\* Simulation.__init__ with the tribal table
InitTribal == InitWith({TribalTable})

\* run(): initiate_votes() before the loop, and get_prompt() followed by a
\* command that changes nothing here (list_players, open_role_interface, ...)
Prompt ==
    /\ error = "none"
    /\ UNCHANGED <<election, called, players, removals>>
    /\ QueuesBounded(Prompted)
    /\ Becomes(Prompted)
    /\ UNCHANGED <<title_requirements, discovered, current_year, current_player_index, error>>

\* CommandHandler.do_nominate
DoNominate ==
    /\ error = "none"
    /\ UNCHANGED <<election, called, players, removals>>
    /\ QueuesBounded(Prompted)
    /\ \E i \in DOMAIN Prompted.av :
         /\ NominationEligible(Prompted.av[i], Prompted.asg, CurrentPlayer)
         /\ \E c \in NominationChoices(Prompted.av[i], Prompted.asg, CurrentPlayer) :
              Becomes([Prompted EXCEPT !.av[i] =
                         nominate(@, Prompted.asg, title_requirements, CurrentPlayer, c)])
    /\ UNCHANGED <<title_requirements, discovered, current_year, current_player_index, error>>

\* VotingManager.handle_vote for the menu entry of a vote the player has not
\* voted in and whose role has a vote interface
HandleVote ==
    /\ error = "none"
    /\ UNCHANGED <<election, called, players, removals>>
    /\ QueuesBounded(Prompted)
    /\ \E i \in DOMAIN Prompted.av :
         LET listed == Prompted.av[i]
             target == Prompted.vi[listed.role]
         IN  /\ listed.voting_active
             /\ CurrentPlayer \notin DOMAIN listed.votes
             /\ target # 0
             /\ \E data \in BallotData(Prompted.av[target]) :
                  Becomes([Prompted EXCEPT !.av[target] = vote(@, CurrentPlayer, data)])
    /\ UNCHANGED <<title_requirements, discovered, current_year, current_player_index, error>>

\* LeadershipInterface.start_nominations
StartNominationsCmd ==
    /\ error = "none"
    /\ UNCHANGED <<election, called, players, removals>>
    /\ QueuesBounded(Prompted)
    /\ HasLeadershipInterface(Prompted.asg, CurrentPlayer)
    /\ \E i \in DOMAIN Prompted.av :
         LET v == Prompted.av[i]
         IN  /\ v.nomination_control = "command_based"
             /\ can_start_nominations(v, Prompted.asg, CurrentPlayer)
             /\ ~v.is_nomination_open
             /\ Becomes([Prompted EXCEPT !.av[i] = start_nominations(v, current_year)])
    /\ UNCHANGED <<title_requirements, discovered, current_year, current_player_index, error>>

\* LeadershipInterface.close_nominations
CloseNominationsCmd ==
    /\ error = "none"
    /\ UNCHANGED <<election, called, players, removals>>
    /\ QueuesBounded(Prompted)
    /\ HasLeadershipInterface(Prompted.asg, CurrentPlayer)
    /\ \E i \in DOMAIN Prompted.av :
         LET v == Prompted.av[i]
         IN  /\ v.nomination_control = "command_based"
             /\ can_close_nominations(v, Prompted.asg, CurrentPlayer)
             /\ v.is_nomination_open
             /\ Becomes([Prompted EXCEPT !.av[i] = close_nominations(v)])
    /\ UNCHANGED <<title_requirements, discovered, current_year, current_player_index, error>>

\* LeadershipInterface.remove_role; the command needs Chieftainship
\* (command_registry.py)
RemoveRoleCmd ==
    /\ error = "none"
    /\ removals < MaxRemovals
    /\ removals' = removals + 1
    /\ UNCHANGED <<election, called, players>>
    /\ QueuesBounded(Prompted)
    /\ HasLeadershipInterface(Prompted.asg, CurrentPlayer)
    /\ "Chieftainship" \in discovered
    /\ \E r \in RoleSet : \E q \in Prompted.asg[r] :
         Becomes([Prompted EXCEPT !.asg = remove_role(@, r, q)])
    /\ UNCHANGED <<title_requirements, discovered, current_year, current_player_index, error>>

\* A variant of MustVote that refuses only while a forced vote has no ballot at all
MustVote_nobody_voted(m, player) ==
    \E i \in DOMAIN m.av :
        m.av[i].voting_active /\ m.av[i].force_vote /\ DOMAIN m.av[i].votes = {}

\* do_end_turn refuses: a forced vote is active that the player has not voted in
MustVote(m, player) ==
    \E i \in DOMAIN m.av :
        m.av[i].voting_active /\ m.av[i].force_vote /\ ~can_end_turn(m.av[i], player)

\* Simulation.do_end_turn inside one turn of the player rotation
EndTurnWithinYear(conflicted) ==
    /\ (current_player_index + 1) % Len(players) # 0
    /\ \E picks \in Picks(Prompted) :
         \E done \in {process_votes(Prompted, title_requirements, discovered,
                                     current_year, conflicted, picks)} :
             /\ QueuesBounded(done.m)
             /\ Becomes(done.m)
             /\ error' = done.err
             /\ current_player_index' =
                  IF done.err = "none" THEN current_player_index + 1 ELSE current_player_index
    /\ UNCHANGED <<title_requirements, discovered, current_year>>

\* Simulation.do_end_turn of the last player of the rotation: the year
\* advances, process_votes runs a second time, innovations are processed
\* (the discovered set can only grow) and seats are scanned again
EndTurnNewYear(conflicted) ==
    /\ (current_player_index + 1) % Len(players) = 0
    /\ current_year < MaxYear
    /\ \E picks \in Picks(Prompted) :
         \E first \in {process_votes(Prompted, title_requirements, discovered,
                                      current_year, conflicted, picks)} :
             IF first.err # "none"
             THEN /\ QueuesBounded(first.m)
                  /\ Becomes(first.m)
                  /\ error' = first.err
                  /\ UNCHANGED <<discovered, current_year, current_player_index>>
             ELSE \E again \in Picks(first.m) :
                    \E second \in {process_votes(first.m, title_requirements, discovered,
                                                  current_year + 1, conflicted, again)} :
                        /\ current_player_index' = 0
                        /\ current_year' = current_year + 1
                        /\ error' = second.err
                        /\ IF second.err # "none"
                           THEN /\ QueuesBounded(second.m)
                                /\ Becomes(second.m)
                                /\ UNCHANGED discovered
                           ELSE \E found \in SUBSET {"Chieftainship"} :
                                  \E scanned \in {initiate_votes(second.m, title_requirements,
                                                     discovered \cup found, current_year + 1)} :
                                      /\ discovered' = discovered \cup found
                                      /\ QueuesBounded(scanned)
                                      /\ Becomes(scanned)
    /\ UNCHANGED title_requirements

\* CommandHandler.do_end_turn -> Simulation.do_end_turn
DoEndTurn ==
    /\ error = "none"
    /\ UNCHANGED <<election, called, players, removals>>
    /\ IF MustVote(Prompted, CurrentPlayer)
       THEN /\ QueuesBounded(Prompted)
            /\ Becomes(Prompted)
            /\ UNCHANGED <<title_requirements, discovered, current_year,
                           current_player_index, error>>
       ELSE \E conflicted \in SUBSET PlayerNames :
              EndTurnWithinYear(conflicted) \/ EndTurnNewYear(conflicted)

Next ==
    \/ Prompt
    \/ DoNominate
    \/ HandleVote
    \/ StartNominationsCmd
    \/ CloseNominationsCmd
    \/ RemoveRoleCmd
    \/ DoEndTurn

Spec == Init /\ [][Next]_vars

\* The program on the tribal table while nobody uses the remove_role command
NextNoRemoval ==
    \/ Prompt
    \/ DoNominate
    \/ HandleVote
    \/ StartNominationsCmd
    \/ CloseNominationsCmd
    \/ DoEndTurn

SpecTribal == InitTribal /\ [][NextNoRemoval]_vars

TypeOK ==
    /\ players = PlayerList
    /\ election = <<>>
    /\ called = NotCalled
    /\ error \in {"none", "TypeError"}
    /\ current_year \in 0..MaxYear
    /\ current_player_index \in 0..(NumPlayers - 1)
    /\ removals \in 0..MaxRemovals
    /\ discovered \subseteq {"Tribalism", "Chieftainship"}
    /\ title_requirements \in Scenarios \cup {TribalTable}
    /\ \A r \in RoleSet :
         /\ assignments[r] \subseteq PlayerNames
         /\ vote_interfaces[r] \in 0..Len(active_votes)
         /\ Len(queued_seats[r]) <= MaxQueue
         /\ \A k \in DOMAIN queued_seats[r] :
              queued_seats[r][k] \in 1..title_requirements[r].max_holders
    /\ \A i \in DOMAIN active_votes :
         /\ active_votes[i].role \in RoleSet
         /\ active_votes[i].seat_number \in 1..title_requirements[active_votes[i].role].max_holders
         /\ Range(active_votes[i].nominations) \subseteq PlayerNames


\* ------------------------------------------- one VotingSystem object, directly
\* The methods of one VotingSystem object called directly, in any order and
\* with any arguments, by all four players of world/player.py: the calls the
\* manager and the interfaces make (start_nominations, nominate,
\* close_nominations, start_vote, vote, get_result) without their filters.
\* Nominations are started once, and a call that raises ValueError ends the
\* calls: the exception reaches the caller with the object as the call left it.

\* The players that are proposed as candidates
NomineePool == Range(SubSeq(AllPlayers, 1, MaxCandidates))

\* A command-based office without a starter role
StarterlessOffice ==
    [ChieftainTribal EXCEPT !.nomination_starter_role = "None", !.appointer = "anyone"]

\* The offices an object is created for: plurality (appointed and
\* self-appointed nominations), two-round runoff, ranked choice, command-based
ElectionOffices ==
    {OneElderTable.Elder, InstantTable.Elder, RunoffTable.Elder, RankedTable.Elder,
     StarterlessOffice}

\* initiate_votes creating the object (lines 48-59), in a fresh Simulation
InitElection ==
    /\ \E office \in ElectionOffices :
         /\ title_requirements = [Elder |-> office, Chieftain |-> ChieftainAppointed]
         /\ election = NewVote("Elder", office, 1)
    /\ called = NotCalled
    /\ players = AllPlayers
    /\ removals = 0
    /\ log = <<>>
    /\ owed = [r \in RoleSet |-> <<>>]
    /\ active_votes = <<>>
    /\ vote_interfaces = [r \in RoleSet |-> 0]
    /\ queued_seats = [r \in RoleSet |-> <<>>]
    /\ assignments = [r \in RoleSet |-> {}]
    /\ discovered = {"Tribalism"}
    /\ current_year = 0
    /\ current_player_index = 0
    /\ error = "none"

\* The state of the program around the object, which the calls leave alone
Surroundings ==
    <<players, removals, log, owed, title_requirements, active_votes, vote_interfaces,
      queued_seats, assignments, discovered, current_year, current_player_index, error>>

\* get_result returned a winner: the manager retires the object
Resolved == called.op = "get_result" /\ called.verdict # "RUNOFF"

\* The last call raised ValueError
Raised == called.op \in {"start_nominations", "close_nominations", "nominate", "vote"}
          /\ called.verdict # "ok"

\* Calls go on
Running == ~Resolved /\ ~Raised

\* The name the message of a ValueError holds: the player's for
\* "... is not authorized" and "... has already voted", the candidate's for
\* the messages about a candidate, none otherwise
Named(verdict, player, candidate) ==
    IF verdict \in {"not authorized", "already voted"} THEN player
    ELSE IF verdict \in {"already nominated", "not a valid player", "already assigned",
                         "not a valid candidate"}
    THEN candidate
    ELSE ""

\* The record of a call that returned ("ok") or raised
Called(op, verdict, player, candidate) ==
    [NotCalled EXCEPT !.op = op, !.verdict = verdict,
                      !.named = Named(verdict, player, candidate)]

\* vote.start_nominations(current_year)
CallStartNominations ==
    /\ Running
    /\ ~election.voting_active
    /\ election.closed_with = <<>>
    /\ election' = start_nominations(election, current_year)
    /\ called' = Called("start_nominations", start_nominations_check(election), "", "")
    /\ UNCHANGED Surroundings

\* vote.close_nominations()
CallCloseNominations ==
    /\ Running
    /\ ~election.voting_active
    /\ election' = close_nominations(election)
    /\ called' = Called("close_nominations",
                        IF election.is_nomination_open THEN "ok" ELSE "not open", "", "")
    /\ UNCHANGED Surroundings

\* selected_vote.nominate(current_player, candidate_name)
CallNominate ==
    /\ Running
    /\ ~election.voting_active
    /\ \E p \in PlayerNames : \E c \in NomineePool \cup {"Nobody"} :
         /\ election' = nominate(election, assignments, title_requirements, p, c)
         /\ Len(election'.nominations) <= MaxCandidates
         /\ called' = Called("nominate",
                             nominate_check(election, assignments, title_requirements, p, c),
                             p, c)
    /\ UNCHANGED Surroundings

\* process_votes lines 91-92 and 111-113: closed nominations, no voting yet,
\* more than one candidate
CallStartVote ==
    /\ Running
    /\ ~election.is_nomination_open
    /\ ~election.voting_active
    /\ Len(election.nominations) > 1
    /\ election' = start_vote(election, election.nominations, current_year)
    /\ called' = Called("start_vote", "ok", "", "")
    /\ UNCHANGED Surroundings

\* The orderings of a list of distinct names
Orderings(list) ==
    {f \in [1..Len(list) -> Range(list)] : \A i, j \in 1..Len(list) : f[i] = f[j] => i = j}

\* d lists every name of list exactly once
IsOrdering(d, list) ==
    /\ Len(d) = Len(list)
    /\ \A i \in DOMAIN list : \E j \in DOMAIN d : d[j] = list[i]

\* The candidates on offer: the round's once voting is active
OnOffer(v) == IF v.voting_active THEN Round(v) ELSE v.nominations

\* What is typed as a vote: a name for a plurality or runoff vote; for a ranked
\* vote a ranking of the candidates or a list that leaves one out, repeats
\* one, adds one or replaces one.
BallotInputs(v) ==
    IF v.system # "ranked_choice" THEN NomineePool \cup {"Nobody"}
    ELSE LET list == OnOffer(v)
         IN  IF list = <<>> THEN {<<"Alice">>}
             ELSE Orderings(list)
                  \cup {Tail(list), [list EXCEPT ![Len(list)] = list[1]],
                        Append(list, "Nobody"), [list EXCEPT ![1] = "Nobody"]}

\* interface.handle_vote(player, vote_data) -> vote.vote(player, ...)
CallVote ==
    /\ Running
    /\ \E p \in PlayerNames : \E data \in BallotInputs(election) :
         /\ election' = vote(election, p, data)
         /\ called' = Called("vote", vote_check(election, p, data), p, data)
    /\ UNCHANGED Surroundings

\* The draws of random.choice one call of get_result can make
Draws(v) ==
    IF v.system = "ranked_choice"
    THEN [1..(Len(v.candidates) - 1) -> 1..Len(v.candidates)]
    ELSE [1..1 -> 1..Len(Round(v))]

\* process_votes lines 124-131: vote.get_result(), and for "RUNOFF" the
\* start_vote with the finalists
CallGetResult ==
    /\ Running
    /\ election.voting_active
    /\ \E draws \in Draws(election) :
         \E res \in {get_result(election, draws)} :
            /\ election' = IF res.result = "RUNOFF"
                           THEN start_vote(res.vote, res.vote.finalists, current_year)
                           ELSE res.vote
            /\ called' = [op |-> "get_result", verdict |-> res.result, named |-> "",
                          tallied |-> election,
                          eliminated |-> IF election.system = "ranked_choice"
                                         THEN rcv_rounds(election, <<>>, draws, 1).eliminated
                                         ELSE <<>>]
    /\ UNCHANGED Surroundings

NextElection ==
    \/ CallStartNominations
    \/ CallNominate
    \/ CallCloseNominations
    \/ CallStartVote
    \/ CallVote
    \/ CallGetResult

SpecElection == InitElection /\ [][NextElection]_vars

\* ================================================================ claims

LiveVotes == {active_votes[i] : i \in DOMAIN active_votes}

\* Every set of ballots some of the players can have cast for these candidates
Ballots(cands) == UNION {[S -> Range(cands)] : S \in SUBSET PlayerNames}

\* No candidate has more than half of the ballots
NoMajority(cands, ballots) ==
    \A c \in Range(cands) :
        2 * VoteCount(ballots, c) <= Cardinality(DOMAIN ballots)

\* C1: no two live votes are bound to the same seat of the same role,
\* whatever scans, end of turns, commands and ledger answers came before.
C1_OneElectionPerSeat ==
    \A i, j \in DOMAIN active_votes :
        i # j => ~(/\ active_votes[i].role = active_votes[j].role
                   /\ active_votes[i].seat_number = active_votes[j].seat_number)

\* C2: a vote never has its nominations open and its voting active at once,
\* and no ballot is accepted while its nominations are open.
C2_PhasesExclusive ==
    \A v \in LiveVotes :
        /\ ~(v.is_nomination_open /\ v.voting_active)
        /\ v.is_nomination_open =>
             \A p \in PlayerNames : \A d \in BallotData(v) : vote_check(v, p, d) # "ok"

\* C3: once the nominations of a vote were closed they are never open again
\* and its candidate list stays what it was at that moment.
C3_ClosedStaysClosed ==
    \A v \in LiveVotes :
        v.closed_with # <<>> =>
            /\ ~v.is_nomination_open
            /\ v.nominations = v.closed_with[1]

\* C4: for every voting system, a vote whose voting is active is complete
\* exactly when the current year is greater than the year its voting started,
\* whatever ballots it holds.
C4_CompleteAfterStartYear ==
    \A v \in LiveVotes :
        v.voting_active =>
            is_complete(v, current_year) =
                (IF current_year > v.voting_start_year THEN "true" ELSE "false")

\* C5 as stated: when a vote is created for a role, every seat of that role
\* whose winner the ledger rejected since the role last got a vote is the seat
\* of the new vote.
C5_NextElectionSameSeat ==
    \A k \in DOMAIN log :
        log[k].e = "create" =>
            \A n \in DOMAIN log[k].owed :
                log[k].owed[n].rejected => log[k].owed[n].seat = log[k].seat

\* C5 amended: a rejected commit retires the vote and puts its seat at index 0
\* of the role's queue; a vote that is created takes the seat at the front of
\* the queue, which is the seat requeued last.
C5_RequeuedSeatFirst ==
    \A k \in DOMAIN log :
        /\ log[k].e = "rejected" =>
             /\ log[k].retired
             /\ log[k].queue # <<>>
             /\ log[k].queue[1] = log[k].seat
        /\ log[k].e = "create" =>
             /\ log[k].seat = log[k].queue[1]
             /\ log[k].owed # <<>> => log[k].seat = log[k].owed[1].seat

\* A rejected commit followed, in the same end of turn, by a new vote for the seat
C5_Witness ==
    \E k, l \in DOMAIN log :
        /\ k < l
        /\ log[k].e = "rejected"
        /\ log[l].e = "create"
        /\ log[l].role = log[k].role
        /\ log[l].seat = log[k].seat

\* C6: a seat requeued during the last command, for want of candidates or
\* because the ledger rejected the winner, is in its role's queue or is the
\* seat of a live vote.
C6_VacancyKept ==
    \A k \in DOMAIN log :
        log[k].e \in {"rejected", "discarded"} =>
            \/ log[k].seat \in Range(queued_seats[log[k].role])
            \/ \E v \in LiveVotes :
                 v.role = log[k].role /\ v.seat_number = log[k].seat

\* The same seat requeued twice in a row, once for want of candidates and once
\* on a rejected commit, and bound to a live vote afterwards
C6_Witness ==
    \E k, l \in DOMAIN log :
        /\ k < l
        /\ log[k].e \in {"rejected", "discarded"}
        /\ log[l].e \in {"rejected", "discarded"}
        /\ log[k].e # log[l].e
        /\ log[l].role = log[k].role
        /\ log[l].seat = log[k].seat
        /\ \E v \in LiveVotes : v.role = log[k].role /\ v.seat_number = log[k].seat

\* C7: a vote whose nominations closed with exactly one nominee never has its
\* voting active and never holds a ballot.
C7_SingleNomineeNeverVoted ==
    \A v \in LiveVotes :
        (v.closed_with # <<>> /\ Len(v.closed_with[1]) = 1) =>
            /\ ~v.voting_active
            /\ v.votes = <<>>

\* C8: a vote whose nominations closed with no candidate never has its voting
\* active and never gets a candidate; when such a vote is discarded its seat
\* is at index 0 of the role's queue.
C8_NoCandidateDiscarded ==
    /\ \A v \in LiveVotes :
         (v.closed_with # <<>> /\ v.closed_with[1] = <<>>) =>
             /\ ~v.voting_active
             /\ v.nominations = <<>>
    /\ \A k \in DOMAIN log :
         log[k].e = "discarded" =>
             /\ log[k].retired
             /\ log[k].queue # <<>>
             /\ log[k].queue[1] = log[k].seat

\* C9: a two-round vote in its first round that holds at least one ballot and
\* no majority is turned, by the end of turn of a later year, into a runoff:
\* no exception, two distinct finalists, no ballots left, the vote still live
\* and active for the two finalists, and nobody assigned.
C9_RoundOneRunoff ==
    \A i \in DOMAIN active_votes :
        LET v == active_votes[i]
        IN  (v.system = "two_round_runoff" /\ v.voting_active /\ v.finalists = <<>>) =>
            \A b \in Ballots(v.candidates) :
                (b # <<>> /\ NoMajority(v.candidates, b)) =>
                    LET r == process_vote([Manager EXCEPT !.av[i].votes = b], i,
                                          title_requirements, discovered,
                                          v.voting_start_year + 1, {}, 1)
                    IN  /\ r.err = "none"
                        /\ ~r.removed
                        /\ r.m.asg = assignments
                        /\ r.m.av[i].voting_active
                        /\ r.m.av[i].votes = <<>>
                        /\ Len(r.m.av[i].finalists) = 2
                        /\ r.m.av[i].finalists[1] # r.m.av[i].finalists[2]
                        /\ Range(r.m.av[i].finalists) \subseteq Range(v.candidates)
                        /\ r.m.av[i].candidates = r.m.av[i].finalists

\* C10: a two-round vote in its second round is ended, by the end of turn of
\* a later year, with one of the two finalists handed to the ledger, whatever
\* ballots it holds; it is never turned into a runoff again.
C10_RoundTwoWinner ==
    \A i \in DOMAIN active_votes :
        LET v == active_votes[i]
        IN  (v.system = "two_round_runoff" /\ v.voting_active /\ v.finalists = <<>>) =>
            \A b \in Ballots(v.candidates) :
                (b # <<>> /\ NoMajority(v.candidates, b)) =>
                    LET first == trr_get_result([v EXCEPT !.votes = b], 1).vote
                        second == start_vote(first, first.finalists, v.voting_start_year + 1)
                    IN  \A b2 \in Ballots(second.finalists) : \A pick \in 1..NumPlayers :
                            LET r == process_vote(
                                       [Manager EXCEPT !.av[i] = [second EXCEPT !.votes = b2]],
                                       i, title_requirements, discovered,
                                       second.voting_start_year + 1, {}, pick)
                            IN  /\ r.err = "none"
                                /\ r.removed
                                /\ r.m.log # <<>>
                                /\ r.m.log[1].e \in {"assigned", "rejected"}
                                /\ r.m.log[1].who \in Range(second.finalists)


\* ------------------------------------------------ claims on one object
\* The object get_result was last called on, and its result
Tallied == called.tallied

HasTallied(system) == called.op = "get_result" /\ Tallied.system = system

\* C11: when get_result of a two-round vote in its first round returns
\* "RUNOFF", it leaves two distinct finalists among the candidates, and every
\* candidate that is not a finalist got at most as many of the ballots counted
\* as each finalist.
C11_FinalistsTopTwo ==
    (HasTallied("two_round_runoff") /\ called.verdict = "RUNOFF") =>
        /\ Tallied.finalists = <<>>
        /\ Len(election.finalists) = 2
        /\ election.finalists[1] # election.finalists[2]
        /\ Range(election.finalists) \subseteq Range(Tallied.candidates)
        /\ \A c \in Range(Tallied.candidates) \ Range(election.finalists) :
             \A k \in 1..2 :
                VoteCount(Tallied.votes, c) <= VoteCount(Tallied.votes, election.finalists[k])

\* A runoff whose finalists are not the two candidates nominated first, with a
\* candidate that got a ballot left out
C11_Witness ==
    /\ HasTallied("two_round_runoff")
    /\ called.verdict = "RUNOFF"
    /\ election.finalists # SubSeq(Tallied.candidates, 1, 2)
    /\ \E c \in Range(Tallied.candidates) \ Range(election.finalists) :
         VoteCount(Tallied.votes, c) > 0

\* The candidates that tie for second place: one candidate leads alone and
\* these share the highest count among the others
TiedForSecond(v) ==
    LET lead == MaxOf({VoteCount(v.votes, c) : c \in Range(v.candidates)})
        leaders == {c \in Range(v.candidates) : VoteCount(v.votes, c) = lead}
        others == Range(v.candidates) \ leaders
    IN  IF Cardinality(leaders) # 1 \/ others = {} THEN {}
        ELSE {c \in others :
                VoteCount(v.votes, c) = MaxOf({VoteCount(v.votes, d) : d \in others})}

\* C12: when get_result of a two-round vote in its first round finds no
\* majority and two or more candidates tie for second place, each of them is
\* a finalist for some draw of the random source.
C12_AnyTiedRunnerUp ==
    (/\ election.system = "two_round_runoff"
     /\ election.voting_active
     /\ election.finalists = <<>>
     /\ election.votes # <<>>
     /\ Cardinality(TiedForSecond(election)) >= 2
     /\ trr_get_result(election, 1).result = "RUNOFF") =>
        \A c \in TiedForSecond(election) :
            \E pick \in 1..MaxCandidates :
                c \in Range(trr_get_result(election, pick).vote.finalists)

\* C13: the result of get_result of a plurality vote is one of its candidates,
\* and no candidate got more of the ballots than it did, whatever ballots were
\* cast (none included) and whatever the draw.
C13_PluralityWinner ==
    HasTallied("first_past_the_post") =>
        /\ called.verdict \in Range(Tallied.candidates)
        /\ \A c \in Range(Tallied.candidates) :
             VoteCount(Tallied.votes, c) <= VoteCount(Tallied.votes, called.verdict)

\* Three candidates: two lead with the same count, the third has fewer, and
\* the winner is the leader that was nominated later
C13_Witness ==
    /\ HasTallied("first_past_the_post")
    /\ Len(Tallied.candidates) = 3
    /\ \E i, j, k \in 1..3 :
         /\ i < j
         /\ called.verdict = Tallied.candidates[j]
         /\ VoteCount(Tallied.votes, Tallied.candidates[i])
              = VoteCount(Tallied.votes, Tallied.candidates[j])
         /\ VoteCount(Tallied.votes, Tallied.candidates[k])
              < VoteCount(Tallied.votes, Tallied.candidates[j])

\* The candidates eliminated before the j-th elimination of the last tally
Out(j) == Range(SubSeq(called.eliminated, 1, j - 1))

\* C14: every candidate that get_result of a ranked vote eliminates has, at
\* that moment, the fewest current votes of all candidates not eliminated yet,
\* those with no current vote included.
C14_FewestEliminated ==
    HasTallied("ranked_choice") =>
        \A j \in DOMAIN called.eliminated :
            \A c \in Range(Tallied.candidates) \ Out(j) :
                RankedCount(Tallied.votes, Out(j), called.eliminated[j])
                    <= RankedCount(Tallied.votes, Out(j), c)

\* C15: get_result of a ranked vote whose ballots are rankings of all its
\* candidates (or which has no ballot) returns one of the candidates after
\* eliminating at most all but one of them, whatever the draws.
C15_RankedTerminates ==
    HasTallied("ranked_choice") =>
        /\ called.verdict \in Range(Tallied.candidates)
        /\ Len(called.eliminated) <= Len(Tallied.candidates) - 1

\* A tally of three candidates that eliminated two of them
C15_Witness ==
    /\ HasTallied("ranked_choice")
    /\ Len(Tallied.candidates) = 3
    /\ Len(called.eliminated) = 2
    /\ \A p \in DOMAIN Tallied.votes : IsOrdering(Tallied.votes[p], Tallied.candidates)

\* The ballots that count in the round before the j-th elimination
CountedBallots(j) ==
    {p \in DOMAIN Tallied.votes : FirstChoice(Tallied.votes[p], Out(j)) # ""}

\* C16: in every round of get_result of a ranked vote, a candidate that is the
\* first not eliminated choice on more than half of the counted ballots is the
\* result, and that round eliminates nobody.
C16_MajorityWins ==
    HasTallied("ranked_choice") =>
        \A j \in 1..(Len(called.eliminated) + 1) :
            \A c \in Range(Tallied.candidates) \ Out(j) :
                2 * RankedCount(Tallied.votes, Out(j), c) > Cardinality(CountedBallots(j)) =>
                    /\ j = Len(called.eliminated) + 1
                    /\ called.verdict = c

\* A tally that eliminated a candidate and then found a majority that is not
\* every counted ballot
C16_Witness ==
    /\ HasTallied("ranked_choice")
    /\ called.eliminated # <<>>
    /\ LET last == Len(called.eliminated) + 1
           n == RankedCount(Tallied.votes, Out(last), called.verdict)
       IN  /\ 2 * n > Cardinality(CountedBallots(last))
           /\ n < Cardinality(CountedBallots(last))

\* C17: on a ranked vote, vote records a ranking only if it is an ordering of
\* the candidate list; a call that raises leaves the ballots as they were, and
\* every ballot recorded is an ordering of the candidate list.
C17_RankedBallotIsOrdering ==
    [][election.system = "ranked_choice" =>
         /\ \A p \in DOMAIN election'.votes :
              IsOrdering(election'.votes[p], election'.candidates)
         /\ (called'.op = "vote" /\ called'.verdict # "ok") =>
              election'.votes = election.votes]_vars

\* A ranking of the right length that is not an ordering of the candidates was
\* refused while ballots were recorded
C17_Witness ==
    /\ election.system = "ranked_choice"
    /\ called.op = "vote"
    /\ called.verdict = "must include all candidates"
    /\ election.votes # <<>>

\* A ballot the round accepts from a player who has not voted
WellFormed(v, d) ==
    IF v.system = "ranked_choice" THEN IsOrdering(d, v.candidates)
    ELSE d \in Range(Round(v))

\* A vote call by a player who has a ballot raises and changes nothing, with
\* "already voted" when the ballot itself is acceptable
SecondBallotRefused(v) ==
    \A d \in BallotInputs(v) : \A p \in DOMAIN v.votes :
        /\ vote_check(v, p, d) # "ok"
        /\ vote(v, p, d) = v
        /\ WellFormed(v, d) => vote_check(v, p, d) = "already voted"

C19_BallotOutsideRound ==
    /\ ~election.voting_active =>
         \A p \in PlayerNames : \A d \in BallotInputs(election) :
            vote_check(election, p, d) # "ok" /\ vote(election, p, d) = election
    /\ (election.voting_active /\ election.system # "ranked_choice") =>
         \A p \in PlayerNames : \A d \in (NomineePool \cup {"Nobody"}) \ Range(Round(election)) :
            vote_check(election, p, d) # "ok" /\ vote(election, p, d) = election
    /\ (election.system = "two_round_runoff" /\ ~election.first_round) =>
         /\ Len(election.finalists) = 2
         /\ Round(election) = election.finalists
         /\ election.candidates = election.finalists
         /\ Range(election.votes) \subseteq Range(election.finalists)

\* In the second round, a ballot for a candidate of the first round that is
\* not a finalist was refused
C19_Witness ==
    /\ election.system = "two_round_runoff"
    /\ ~election.first_round
    /\ called.op = "vote"
    /\ called.verdict = "not a valid candidate"
    /\ called.named \in Range(election.nominations) \ Range(election.finalists)

\* C20: a call of start_nominations, close_nominations, nominate or vote that
\* raises leaves every field of the object as it was.
C20_RaiseChangesNothing ==
    [][(/\ called'.op \in {"start_nominations", "close_nominations", "nominate", "vote"}
        /\ called'.verdict # "ok") => election' = election]_vars

\* start_nominations raised on an object whose nominations are open and hold
\* a candidate
C20_Witness ==
    /\ called.op = "start_nominations"
    /\ called.verdict = "already open"
    /\ election.is_nomination_open
    /\ election.nominations # <<>>

\* ------------------------------------------- nominations of one object
\* The nomination methods of one VotingSystem object called directly, by all
\* four players, for an office of a table in which some offices are held.

\* The tribal table with a Chieftain office nobody is configured to appoint to
NoAppointerTable ==
    [Elder |-> ElderTribal, Chieftain |-> [ChieftainTribal EXCEPT !.appointer = "None"]]

\* Tables with the three nomination methods, and appointers "anyone", an
\* office, and none
NominationTables == {TribalTable, NoAppointerTable, InstantTable, RunoffTable}

\* The players that hold offices
HolderPool == {"Alice", "Bob"}

\* initiate_votes creating the object (lines 48-59) for an office filled by
\* voting that has a vacant seat, while some players hold offices
InitNomination ==
    /\ \E table \in NominationTables : \E role \in RoleSet :
         /\ table[role].selection_method = "voting"
         /\ title_requirements = table
         /\ election = NewVote(role, table[role], 1)
         /\ assignments \in [RoleSet -> SUBSET HolderPool]
         /\ \A r \in RoleSet : Cardinality(assignments[r]) <= table[r].max_holders
         /\ Cardinality(assignments[role]) < table[role].max_holders
    /\ called = NotCalled
    /\ players = AllPlayers
    /\ removals = 0
    /\ log = <<>>
    /\ owed = [r \in RoleSet |-> <<>>]
    /\ active_votes = <<>>
    /\ vote_interfaces = [r \in RoleSet |-> 0]
    /\ queued_seats = [r \in RoleSet |-> <<>>]
    /\ discovered = {"Tribalism", "Chieftainship"}
    /\ current_year = 0
    /\ current_player_index = 0
    /\ error = "none"

NextNomination ==
    \/ CallStartNominations
    \/ CallNominate
    \/ CallCloseNominations
    \/ CallStartVote

SpecNomination == InitNomination /\ [][NextNomination]_vars

\* The nominator may propose the candidate under the vote's nomination method
MethodAllows(v, player, candidate_name) ==
    LET appointer == title_requirements[v.role].appointer
    IN  CASE v.nomination_method = "self_appointed" -> player = candidate_name
          [] v.nomination_method = "appointed" ->
                \/ appointer = "anyone"
                \/ appointer \in RoleSet /\ player \in assignments[appointer]
          [] OTHER -> TRUE

\* C21: nominate succeeds only when the nomination method allows the
\* nominator to propose the candidate: nominator = candidate under
\* self_appointed, a holder of the appointer office (or appointer "anyone")
\* under appointed; under open the outcome does not depend on the nominator.
\* A call the method does not allow raises and leaves the nominations as they
\* were.
C21_MethodEnforced ==
    \A p \in PlayerNames : \A c \in NomineePool \cup {"Nobody"} :
        LET verdict == nominate_check(election, assignments, title_requirements, p, c)
            after == nominate(election, assignments, title_requirements, p, c)
        IN  /\ verdict = "ok" => MethodAllows(election, p, c)
            /\ ~MethodAllows(election, p, c) =>
                 /\ verdict # "ok"
                 /\ after = election
            /\ (election.is_nomination_open /\ ~MethodAllows(election, p, c)) =>
                 verdict \in {"only self-nomination", "not authorized"}
            /\ election.nomination_method = "open" =>
                 \A q \in PlayerNames :
                    nominate_check(election, assignments, title_requirements, q, c) = verdict

\* A player who does not hold the appointer office, which another player
\* holds, was refused, after a holder's nomination was accepted
C21_Witness ==
    /\ called.op = "nominate"
    /\ called.verdict = "not authorized"
    /\ title_requirements[election.role].appointer \in RoleSet
    /\ assignments[title_requirements[election.role].appointer] # {}
    /\ called.named \notin assignments[title_requirements[election.role].appointer]
    /\ election.nominations # <<>>

\* C22: nominate succeeds only while the nominations are open and the voting
\* is not active, and only for the name of a player that is not nominated yet
\* and does not hold the office; it then appends the name, and otherwise
\* leaves the object as it was.  The nominations never hold a name twice.
C22_NominationsDistinct ==
    /\ \A p \in PlayerNames : \A c \in NomineePool \cup {"Nobody"} :
         LET after == nominate(election, assignments, title_requirements, p, c)
         IN  IF nominate_check(election, assignments, title_requirements, p, c) = "ok"
             THEN /\ election.is_nomination_open
                  /\ ~election.voting_active
                  /\ c \in PlayerNames
                  /\ c \notin Range(election.nominations)
                  /\ c \notin assignments[election.role]
                  /\ after = [election EXCEPT !.nominations = Append(@, c)]
             ELSE after = election
    /\ \A i, j \in DOMAIN election.nominations :
         election.nominations[i] = election.nominations[j] => i = j

\* A name already on a list of two nominees was refused
C22_Witness ==
    /\ called.op = "nominate"
    /\ called.verdict = "already nominated"
    /\ called.named \in Range(election.nominations)
    /\ Len(election.nominations) >= 2

\* ------------------------------------------- claims on the manager's scans
\* The step is an end of turn in which process_votes ran
EndedTurn == current_player_index' # current_player_index \/ error' # error

\* The step is an end of turn that ran to its end
TurnCompleted == current_player_index' # current_player_index /\ error' = "none"

\* The nominations of v are time-based and year - start year >= duration
PeriodElapsed(v, year) ==
    /\ v.nomination_control = "time_based"
    /\ v.nomination_start_year # None
    /\ year - v.nomination_start_year >= v.nomination_duration

\* v is the only live vote for its seat
OnlyVoteOfSeat(v) ==
    Cardinality({i \in DOMAIN active_votes :
                    /\ active_votes[i].role = v.role
                    /\ active_votes[i].seat_number = v.seat_number}) = 1

\* After the step the vote v is live with its nominations open as before:
\* the manager retired no vote of its seat and a vote of its seat is open
\* with the same start year
StillOpen(v) ==
    /\ \A k \in DOMAIN log' :
         ~(/\ log'[k].e \in {"assigned", "rejected", "discarded"}
           /\ log'[k].role = v.role
           /\ log'[k].seat = v.seat_number)
    /\ \E j \in DOMAIN active_votes' :
         /\ active_votes'[j].role = v.role
         /\ active_votes'[j].seat_number = v.seat_number
         /\ active_votes'[j].is_nomination_open
         /\ active_votes'[j].nomination_start_year = v.nomination_start_year

\* One iteration of the loop of process_votes leaves open nominations open
\* unless their time-based period has elapsed, and closes them if it has
LoopClosesWhenElapsed ==
    \A i \in DOMAIN active_votes : \A year \in current_year..(current_year + 1) :
        LET v == active_votes[i]
            r == process_vote(Manager, i, title_requirements, discovered, year, {}, 1)
            open_after == ~r.removed /\ r.m.av[i].is_nomination_open
        IN  (v.is_nomination_open /\ ~v.voting_active) =>
                (open_after <=> ~PeriodElapsed(v, year))

\* C23: open nominations are closed by an end of turn exactly when they are
\* time-based and current year - start year >= duration: a step that closes
\* time-based nominations is an end of turn with the period elapsed, an end of
\* turn with the period elapsed closes them, and an end of turn leaves
\* command-based nominations open.
C23_ClosedWhenPeriodOver ==
    [][/\ LoopClosesWhenElapsed
       /\ \A i \in DOMAIN active_votes :
            LET v == active_votes[i]
            IN  (v.is_nomination_open /\ ~v.voting_active /\ OnlyVoteOfSeat(v)) =>
                  /\ v.nomination_control = "time_based" =>
                       /\ ~StillOpen(v) => EndedTurn /\ PeriodElapsed(v, current_year')
                       /\ (TurnCompleted /\ PeriodElapsed(v, current_year')) => ~StillOpen(v)
                  /\ (v.nomination_control = "command_based" /\ EndedTurn) => StillOpen(v)]_vars

\* Time-based nominations were closed and the voting started, while
\* command-based nominations older than their duration are open
C23_Witness ==
    /\ \E v \in LiveVotes :
         /\ v.nomination_control = "time_based"
         /\ v.closed_with # <<>>
         /\ v.voting_active
    /\ \E v \in LiveVotes :
         /\ v.nomination_control = "command_based"
         /\ v.is_nomination_open
         /\ v.nomination_start_year # None
         /\ current_year - v.nomination_start_year >= v.nomination_duration

\* The voting of the vote w of the state after the step started in the step:
\* before it no vote of its seat had its voting active
VotingStarted(w) ==
    /\ w.voting_active
    /\ \A i \in DOMAIN active_votes :
         (active_votes[i].role = w.role /\ active_votes[i].seat_number = w.seat_number)
            => ~active_votes[i].voting_active

\* C24: voting starts only in an end of turn, for a vote whose nominations
\* are closed and hold two or more names, which become its candidates, with
\* the year of that moment as voting_start_year; every vote whose voting is
\* active has two or more candidates in its current round.
C24_VotingNeedsTwo ==
    [][\A j \in DOMAIN active_votes' :
         LET w == active_votes'[j]
         IN  /\ w.voting_active =>
                  /\ Len(w.candidates) >= 2
                  /\ Len(Round(w)) >= 2
             /\ VotingStarted(w) =>
                  /\ EndedTurn
                  /\ ~w.is_nomination_open
                  /\ w.candidates = w.nominations
                  /\ w.votes = <<>>
                  /\ w.voting_start_year \in {current_year, current_year'}]_vars

\* A vote whose voting is active for the two names its nominations closed with
C24_Witness ==
    \E v \in LiveVotes :
        /\ v.voting_active
        /\ ~v.is_nomination_open
        /\ Len(v.candidates) = 2
        /\ v.closed_with = <<v.candidates>>

\* The votes of active_votes for the role
VotesOfRole(role) == {i \in DOMAIN active_votes : active_votes[i].role = role}

\* The three conditions of the scan for one office: filled by voting, a seat
\* that is neither held nor the subject of a live vote, innovations discovered
ScanEligible(role, disc) ==
    /\ title_requirements[role].selection_method = "voting"
    /\ title_requirements[role].max_holders - Cardinality(assignments[role])
         - Cardinality(VotesOfRole(role)) > 0
    /\ title_requirements[role].innovations \subseteq disc

\* C25: the scan of one office creates a vote only when the office is filled
\* by voting, max_holders - holders - live votes of the office > 0 and its
\* innovations are discovered; for an office that fails one of the three the
\* scan changes nothing, neither the votes nor a queue; every vote created
\* during the last command is for an office filled by voting whose
\* innovations are discovered.
C25_ScanConditions ==
    /\ \A role \in RoleSet : \A disc \in SUBSET {"Tribalism", "Chieftainship"} :
         LET scanned == initiate_role(Manager, title_requirements, disc, current_year, role)
         IN  /\ ~ScanEligible(role, disc) => scanned = Manager
             /\ scanned.av # active_votes =>
                  /\ ScanEligible(role, disc)
                  /\ Len(scanned.av) = Len(active_votes) + 1
                  /\ SubSeq(scanned.av, 1, Len(active_votes)) = active_votes
                  /\ scanned.av[Len(scanned.av)].role = role
             /\ \A r \in RoleSet \ {role} : scanned.qs[r] = queued_seats[r]
    /\ \A k \in DOMAIN log :
         log[k].e = "create" =>
             /\ title_requirements[log[k].role].selection_method = "voting"
             /\ title_requirements[log[k].role].innovations \subseteq discovered

\* A vote was created for the Chieftain office while the Elder office, with
\* every seat held, got none, and the scan would create none for Chieftain
\* without its innovation
C25_Witness ==
    /\ \E k \in DOMAIN log : log[k].e = "create" /\ log[k].role = "Chieftain"
    /\ Cardinality(assignments["Elder"]) = title_requirements["Elder"].max_holders
    /\ VotesOfRole("Elder") = {}
    /\ ~ScanEligible("Chieftain", {"Tribalism"})

\* C26: no seat is at once in its role's queue and the seat of a live vote of
\* that role.
C26_QueuedOrBound ==
    \A v \in LiveVotes : v.seat_number \notin Range(queued_seats[v.role])

\* C27 as stated: a vote that is created takes the lowest seat number of its
\* role's queue.
C27_LowestQueuedSeat ==
    \A k \in DOMAIN log :
        log[k].e = "create" =>
            \A n \in DOMAIN log[k].queue : log[k].seat <= log[k].queue[n]

\* The queue the scan of one office works on: the seats queued before, then
\* the numbers from holders + live votes + 1 up to max_holders
QueueScanned(role) ==
    queued_seats[role]
        \o RangeSeq(Cardinality(assignments[role]) + Cardinality(VotesOfRole(role)) + 1,
                    title_requirements[role].max_holders)

\* C27 amended: a vote that is created takes the seat at the front of its
\* role's queue, whatever its number: the seat queued first before the scan,
\* and holders + live votes + 1 when none was queued; the rest of the queue
\* stays in its order.
C27_FrontQueuedSeat ==
    /\ \A role \in RoleSet :
         LET scanned == initiate_role(Manager, title_requirements, discovered,
                                      current_year, role)
             new == scanned.av[Len(scanned.av)]
         IN  scanned.av # active_votes =>
                /\ ~\E i \in VotesOfRole(role) : active_votes[i].is_nomination_open
                /\ new.seat_number = QueueScanned(role)[1]
                /\ queued_seats[role] # <<>> => new.seat_number = queued_seats[role][1]
                /\ scanned.qs[role] = Tail(QueueScanned(role))
    /\ \A k \in DOMAIN log :
         log[k].e = "create" => log[k].seat = log[k].queue[1]

\* A vote was created for the seat at the front of a queue that held a lower
\* seat number further back
C27_Witness ==
    \E k \in DOMAIN log :
        /\ log[k].e = "create"
        /\ log[k].seat = log[k].queue[1]
        /\ \E n \in DOMAIN log[k].queue : log[k].queue[n] < log[k].seat

\* A command-based vote whose nominations were never opened
Pending(v) ==
    /\ v.nomination_control = "command_based"
    /\ ~v.is_nomination_open
    /\ ~v.voting_active
    /\ v.nomination_start_year = None
    /\ v.closed_with = <<>>

\* C28: a command-based vote whose nominations were never opened stays live
\* through every step: the manager does not discard it as a vote without
\* candidates, and after the step a vote of its seat is live.
C28_PendingKept ==
    [][\A i \in DOMAIN active_votes :
         LET v == active_votes[i]
         IN  Pending(v) =>
               /\ \A k \in DOMAIN log' :
                    ~(/\ log'[k].e = "discarded"
                      /\ log'[k].role = v.role
                      /\ log'[k].seat = v.seat_number)
               /\ \E j \in DOMAIN active_votes' :
                    /\ active_votes'[j].role = v.role
                    /\ active_votes'[j].seat_number = v.seat_number]_vars

\* eligible_votes of LeadershipInterface.start_nominations for the player
EligibleToStart(player) ==
    {i \in DOMAIN active_votes :
        /\ active_votes[i].nomination_control = "command_based"
        /\ can_start_nominations(active_votes[i], assignments, player)
        /\ ~active_votes[i].is_nomination_open}

\* eligible_votes of LeadershipInterface.close_nominations for the player
EligibleToClose(player) ==
    {i \in DOMAIN active_votes :
        /\ active_votes[i].nomination_control = "command_based"
        /\ can_close_nominations(active_votes[i], assignments, player)
        /\ active_votes[i].is_nomination_open}

\* A vote of the seat of w has its nominations open in the given list of votes
OpenForSeat(votes, w) ==
    \E i \in DOMAIN votes :
        /\ votes[i].role = w.role
        /\ votes[i].seat_number = w.seat_number
        /\ votes[i].is_nomination_open

\* C29: the start_nominations command offers a player only command-based
\* votes whose starter office the player holds, and the close_nominations
\* command only those whose closer office the player holds, so a player
\* without the office changes nothing; a step that opens the nominations of a
\* command-based vote is a command of a holder of its starter office, and a
\* step that closes them is a command of a holder of its closer office.
C29_StarterCloserOnly ==
    [][/\ \A p \in PlayerNames : \A i \in DOMAIN active_votes :
            /\ i \in EligibleToStart(p) =>
                 p \in Holders(assignments, active_votes[i].nomination_starter_role)
            /\ i \in EligibleToClose(p) =>
                 p \in Holders(assignments, active_votes[i].nomination_closer_role)
       /\ \A j \in DOMAIN active_votes' :
            LET w == active_votes'[j]
            IN  (/\ w.nomination_control = "command_based"
                 /\ w.is_nomination_open
                 /\ ~OpenForSeat(active_votes, w)) =>
                    /\ ~EndedTurn
                    /\ CurrentPlayer \in Holders(assignments, w.nomination_starter_role)
                    /\ w.nomination_start_year = current_year
       /\ \A i \in DOMAIN active_votes :
            LET v == active_votes[i]
            IN  (/\ v.nomination_control = "command_based"
                 /\ v.is_nomination_open
                 /\ ~v.voting_active
                 /\ ~OpenForSeat(active_votes', v)) =>
                    /\ ~EndedTurn
                    /\ CurrentPlayer \in Holders(assignments, v.nomination_closer_role)]_vars

\* The nominations of a command-based vote were opened and closed by command
\* while a player does not hold its starter and closer office
C29_Witness ==
    \E v \in LiveVotes :
        /\ v.nomination_control = "command_based"
        /\ ~v.is_nomination_open
        /\ v.closed_with # <<>>
        /\ \E p \in PlayerNames :
             /\ p \notin Holders(assignments, v.nomination_starter_role)
             /\ p \notin Holders(assignments, v.nomination_closer_role)

\* The position of a role in the office table
RoleIndex(role) == CHOOSE n \in DOMAIN ROLES : ROLES[n] = role

\* The votes one call of process_votes resolved (winner handed to the ledger,
\* or discarded for want of candidates), in the order in which it did
Resolutions(done) ==
    LET at == {k \in DOMAIN done.m.log :
                  done.m.log[k].e \in {"assigned", "rejected", "discarded"}}
    IN  [k \in at |-> done.m.log[k]]

\* C30: one call of process_votes, in this year or the next, handles the live
\* votes by office and then by ascending seat number: of two votes it
\* resolves, the one resolved first has the earlier office, or the same
\* office and no higher seat number.
C30_ByOfficeThenSeat ==
    \A year \in current_year..(current_year + 1) : \A picks \in Picks(Manager) :
        LET resolved == Resolutions(process_votes(Manager, title_requirements, discovered,
                                                  year, {}, picks))
        IN  \A k, l \in DOMAIN resolved :
                k < l =>
                    \/ RoleIndex(resolved[k].role) < RoleIndex(resolved[l].role)
                    \/ /\ resolved[k].role = resolved[l].role
                       /\ resolved[k].seat <= resolved[l].seat

\* ------------------------------------------- claims on cascades and queues
\* C31: when one iteration of the loop of process_votes retires a vote and
\* the queue of its office is not empty afterwards, then, if the office has a
\* seat that is neither held nor the subject of another live vote and no vote
\* of the office has its nominations open, the iteration ends with a new vote
\* for the seat at the head of that queue, created after the retirement by
\* the scan over the offices, with no nominee, and with nominations open
\* since the year of the call when the office is time-based.
C31_CascadingFill ==
    \A i \in DOMAIN active_votes : \A year \in current_year..(current_year + 1) :
      \A conflicted \in SUBSET PlayerNames : \A pick \in 1..NumPlayers :
        LET v == active_votes[i]
            reqs == title_requirements[v.role]
            r == process_vote(Manager, i, title_requirements, discovered, year,
                              conflicted, pick)
            retired == r.m.log[1]
            others == VotesOfRole(v.role) \ {i}
            vacant == reqs.max_holders - Cardinality(r.m.asg[v.role]) - Cardinality(others)
        IN  (/\ r.removed
             /\ retired.queue # <<>>
             /\ vacant > 0
             /\ reqs.innovations \subseteq discovered
             /\ \A j \in others : ~active_votes[j].is_nomination_open) =>
                /\ \E k \in 2..Len(r.m.log) :
                     /\ r.m.log[k].e = "create"
                     /\ r.m.log[k].role = v.role
                     /\ r.m.log[k].seat = retired.queue[1]
                /\ \E j \in DOMAIN r.m.av :
                     /\ r.m.av[j].role = v.role
                     /\ r.m.av[j].seat_number = retired.queue[1]
                     /\ r.m.av[j].nominations = <<>>
                     /\ ~r.m.av[j].voting_active
                     /\ reqs.nomination_control = "time_based" =>
                          /\ r.m.av[j].is_nomination_open
                          /\ r.m.av[j].nomination_start_year = year

\* During the last end of turn a winner was assigned, the queue of the office
\* was not empty, and the next thing the manager did was to create the vote
\* for the seat at its head, whose nominations are open since this year
C31_Witness ==
    \E k \in DOMAIN log :
        /\ log[k].e = "assigned"
        /\ log[k].queue # <<>>
        /\ k + 1 \in DOMAIN log
        /\ log[k + 1].e = "create"
        /\ log[k + 1].role = log[k].role
        /\ log[k + 1].seat = log[k].queue[1]
        /\ \E v \in LiveVotes :
             /\ v.role = log[k].role
             /\ v.seat_number = log[k + 1].seat
             /\ v.is_nomination_open
             /\ v.nomination_start_year = current_year

\* A table whose command-based office has two seats
TwoChieftainTable ==
    [Elder |-> [ElderTribal EXCEPT !.max_holders = 1],
     Chieftain |-> [ChieftainTribal EXCEPT !.max_holders = 2]]

\* Simulation.__init__ with the table of two command-based seats
InitTwoChieftain == InitWith({TwoChieftainTable})

\* The program on the table of two command-based seats, nobody removed
SpecTwoChieftain == InitTwoChieftain /\ [][NextNoRemoval]_vars

\* The live votes of an office whose nominations are open
OpenVotesOfRole(role) ==
    {i \in VotesOfRole(role) : active_votes[i].is_nomination_open}

\* C32: at any time at most one live vote of an office has its nominations
\* open, whether the office is time-based or command-based.
C32_OneOpenNomination ==
    \A role \in RoleSet : Cardinality(OpenVotesOfRole(role)) <= 1

\* C32 for the time-based offices only
C32_OneOpenTimeBased ==
    \A role \in RoleSet :
        title_requirements[role].nomination_control = "time_based" =>
            Cardinality(OpenVotesOfRole(role)) <= 1

\* C33: the queue of an office never holds the same seat number twice and
\* never holds more than max_holders entries, however many scans run between
\* two ends of turn.
C33_QueueDistinctBounded ==
    \A role \in RoleSet :
        LET q == queued_seats[role]
        IN  /\ \A i, j \in DOMAIN q : q[i] = q[j] => i = j
            /\ Len(q) <= title_requirements[role].max_holders

\* C34: without removals, the number of holders of a voting office plus the
\* number of its live votes never exceeds max_holders.
C34_HoldersPlusVotesBounded ==
    \A role \in RoleSet :
        title_requirements[role].selection_method = "voting" =>
            Cardinality(assignments[role]) + Cardinality(VotesOfRole(role))
                <= title_requirements[role].max_holders

\* An office with a holder and a live vote is full while seats are still
\* queued for it, and a scan in this state creates nothing
C34_Witness ==
    \E role \in RoleSet :
        /\ title_requirements[role].selection_method = "voting"
        /\ assignments[role] # {}
        /\ VotesOfRole(role) # {}
        /\ Cardinality(assignments[role]) + Cardinality(VotesOfRole(role))
               = title_requirements[role].max_holders
        /\ queued_seats[role] # <<>>
        /\ Prompted = Manager

\* ------------------------------------------------- claims on the end of turn
\* The step handed a winner of the vote for this seat to the ledger
ResolvedInStep(v) ==
    \E k \in DOMAIN log' :
        /\ log'[k].e \in {"assigned", "rejected"}
        /\ log'[k].role = v.role
        /\ log'[k].seat = v.seat_number

\* C35: a vote whose voting is opened during an end of turn is not resolved
\* during that same end of turn.  A vote with two nominees or more that is
\* not voting before a step can only be resolved by the step after the step
\* has opened its voting, so no step resolves such a vote.
C35_VotingOutlastsStep ==
    [][\A i \in DOMAIN active_votes :
          (~active_votes[i].voting_active /\ Len(active_votes[i].nominations) >= 2)
              => ~ResolvedInStep(active_votes[i])]_vars

\* The live votes that make do_end_turn refuse to end the turn of the player
Refusing(player) ==
    {i \in DOMAIN active_votes :
        /\ active_votes[i].voting_active
        /\ active_votes[i].force_vote
        /\ ~can_end_turn(active_votes[i], player)}

\* C36: in no reachable state does do_end_turn refuse to end the turn of the
\* current player because of a vote the player has no ballot in while the
\* ballot interface registered for the office of that vote is missing or is
\* the interface of another vote.
C36_NoForceVoteDeadlock ==
    error = "none" =>
        \A i \in Refusing(CurrentPlayer) : vote_interfaces[active_votes[i].role] = i

\* C37: when do_end_turn is invoked while a voting force_vote vote has no
\* ballot of the current player, the turn does not end.  The step consists of
\* the scan of the prompt that precedes the command and of nothing else:
\* process_votes does not run (nothing is retired), the player index, the
\* year, the ledger, the discovered innovations and the ballot interfaces are
\* unchanged, every live vote is unchanged, and the queues and the list of
\* votes are those the scan of the prompt leaves.
C37_RefusedTurnChangesNothing ==
    [][(error = "none" /\ Refusing(CurrentPlayer) # {} /\ DoEndTurn) =>
          /\ current_player_index' = current_player_index
          /\ current_year' = current_year
          /\ assignments' = assignments
          /\ discovered' = discovered
          /\ vote_interfaces' = vote_interfaces
          /\ error' = error
          /\ \A k \in DOMAIN log' : log'[k].e = "create"
          /\ \A i \in DOMAIN active_votes :
                i \in DOMAIN active_votes' /\ active_votes'[i] = active_votes[i]
          /\ active_votes' = Prompted.av
          /\ queued_seats' = Prompted.qs]_vars

\* The last player of the rotation has no ballot in a forced vote in which
\* somebody else has voted
C37_Witness ==
    /\ error = "none"
    /\ current_player_index = Len(players) - 1
    /\ \E i \in Refusing(CurrentPlayer) : DOMAIN active_votes[i].votes # {}

\* The time-based plurality votes among these
TimedPlurality(votes) ==
    {v \in votes : v.nomination_control = "time_based" /\ v.system = "first_past_the_post"}

\* The live votes after the step
LiveVotesAfter == {active_votes'[i] : i \in DOMAIN active_votes'}

\* The vote was already voting before the step, since the same year
VotingSince(w) ==
    \E v \in LiveVotes :
        /\ v.role = w.role /\ v.seat_number = w.seat_number
        /\ v.voting_active /\ v.voting_start_year = w.voting_start_year

\* C38: a time-based plurality vote whose nominations were opened in year Y
\* for D years is retired at the latest by the end of turn that begins year
\* Y + D + 1.  After every step, each live time-based plurality vote either
\* has its nominations open, and the year is at most Y + D, or is voting,
\* and the year is still the year its voting started in; and the voting of
\* a vote that was open since Y before the step starts in year Y + D at the
\* latest.  So no such vote is live in a state whose year exceeds Y + D.
C38_RetiredInTime ==
    [][\A w \in TimedPlurality(LiveVotesAfter) :
          /\ w.is_nomination_open \/ w.voting_active
          /\ w.is_nomination_open =>
                /\ ~w.voting_active
                /\ current_year' <= w.nomination_start_year + w.nomination_duration
          /\ w.voting_active =>
                /\ current_year' = w.voting_start_year
                /\ VotingSince(w) \/
                     \E v \in TimedPlurality(LiveVotes) :
                        /\ v.role = w.role /\ v.seat_number = w.seat_number
                        /\ v.is_nomination_open
                        /\ w.voting_start_year
                              <= v.nomination_start_year + v.nomination_duration]_vars

\* The last player of the rotation is about to end the last year a voting
\* time-based plurality vote can be live in
C38_Witness ==
    /\ error = "none"
    /\ current_player_index = Len(players) - 1
    /\ current_year < MaxYear
    /\ Refusing(CurrentPlayer) = {}
    /\ \E v \in TimedPlurality(LiveVotes) :
         v.voting_active /\ current_year = v.voting_start_year

\* The entries of a log that record the creation of a vote
Creations(lg) == {k \in DOMAIN lg : lg[k].e = "create"}

\* The entries of a log that record the retirement of a vote
Retirements(lg) == {k \in DOMAIN lg : lg[k].e \in {"assigned", "rejected", "discarded"}}

\* A vote as initiate_votes leaves it in this year
JustCreated(v, year) ==
    /\ v.nominations = <<>> /\ v.candidates = <<>> /\ DOMAIN v.votes = {}
    /\ ~v.voting_active
    /\ v.closed_with = <<>>
    /\ v.is_nomination_open = (v.nomination_control = "time_based")
    /\ v.is_nomination_open => v.nomination_start_year = year

\* C39: one call of process_votes, in this year or the next, whatever the
\* ledger rejects and whatever is drawn, ends after retiring at most as many
\* votes as were live at its start (each is handled once), and the votes the
\* cascading scans created during the call are at the end of the list as
\* they were created: the call has not handled them.
C39_EachVoteOnce ==
    \A year \in current_year..(current_year + 1) : \A conflicted \in SUBSET PlayerNames :
      \A picks \in Picks(Manager) :
        LET done == process_votes(Manager, title_requirements, discovered, year,
                                  conflicted, picks)
            n == Len(active_votes)
            retired == Cardinality(Retirements(done.m.log))
            created == Cardinality(Creations(done.m.log))
        IN  /\ retired <= n
            /\ created <= retired * Len(ROLES)
            /\ Len(done.m.av) = n - retired + created
            /\ \A j \in (n - retired + 1)..Len(done.m.av) : JustCreated(done.m.av[j], year)

\* The last end of turn discarded a vote of an office whose nominations last
\* zero years and created it again, and the new vote is open, or it had a
\* winner rejected and created the vote again
C39_Witness ==
    \E k \in Retirements(log) :
        /\ log[k].e \in {"discarded", "rejected"}
        /\ \E c \in Creations(log) : c > k /\ log[c].role = log[k].role
                                          /\ log[c].seat = log[k].seat
        /\ \E v \in LiveVotes :
             /\ v.role = log[k].role /\ v.seat_number = log[k].seat
             /\ JustCreated(v, current_year)
             /\ log[k].e = "discarded" => v.nomination_duration = 0

\* ------------------------------------------------- claims on the winner
\* What one iteration of the loop of process_votes hands to the ledger for
\* the vote at index i: the set of the players submitted (empty or one name)
Submitted(i, year, conflicted, pick) ==
    LET r == process_vote(Manager, i, title_requirements, discovered, year,
                          conflicted, pick)
    IN  IF r.removed /\ r.m.log[1].e \in {"assigned", "rejected"}
        THEN {r.m.log[1].who} ELSE {}

\* C40: whoever process_votes hands to the ledger for the seat of a vote, in
\* this year or the next and whatever is drawn, is in the list of nominees
\* of that vote and is a candidate of its current round (one of the two
\* finalists after a runoff).
C40_WinnerNominated ==
    \A i \in DOMAIN active_votes : \A year \in current_year..(current_year + 1) :
      \A conflicted \in SUBSET PlayerNames : \A pick \in 1..NumPlayers :
        \A who \in Submitted(i, year, conflicted, pick) :
            /\ who \in Range(active_votes[i].nominations)
            /\ active_votes[i].voting_active => who \in Range(Round(active_votes[i]))

\* C40 without the list of nominees: whoever is handed to the ledger is a
\* candidate of the current round of the vote, or its only nominee when the
\* vote was never voting
C40_WinnerInRound ==
    \A i \in DOMAIN active_votes : \A year \in current_year..(current_year + 1) :
      \A conflicted \in SUBSET PlayerNames : \A pick \in 1..NumPlayers :
        \A who \in Submitted(i, year, conflicted, pick) :
            IF active_votes[i].voting_active
            THEN who \in Range(Round(active_votes[i]))
            ELSE active_votes[i].nominations = <<who>>

====
